---- MODULE Spec2Model ----
(***************************************************************************)
(* Model of the clawdbot-sendblue adapter: the Poller (src/src/poller.ts), *)
(* the webhook server and its rate limiter (src/src/webhook.ts), the SSE   *)
(* manager (src/src/sse.ts) and the JSON-RPC dispatcher (src/src/rpc.ts).  *)
(*                                                                         *)
(* Node runs every callback to its next await without interruption, so one *)
(* action is one synchronous run of a handler: from its entry, or from the *)
(* resumption of an await, to the next await or return.                    *)
(*                                                                         *)
(* Strings that the code inspects (phone numbers, message text, header     *)
(* values) are sequences of one-character strings; times are milliseconds  *)
(* counted from the construction of the Poller.                            *)
(*                                                                         *)
(* db.ts (the ledger), sendblue.ts (the provider client) and channel.ts    *)
(* (the webhook's onMessage callback) are not among the sources; they are  *)
(* modelled from their description in spec.md sections 4.1, 4.4 and 6.     *)
(***************************************************************************)
EXTENDS Integers, Sequences, FiniteSets, TLC

VARIABLES
  now,              \* Date.now()
  proc,             \* the Node process of index.ts: its listener, its
                    \* database handle, its exit timers and its exit code
  \* ---- Poller (poller.ts:17-23)
  allowlist,        \* config.allowlist
  isRunning, pollInterval, cleanupInterval, isPolling, lastPollTime,
  timers,           \* the poll timers setInterval has made and nothing cleared
  pollPc,           \* where the async poll() is: "idle", "fetching", "processing"
  pollStart,        \* the local pollStart of the cycle in flight
  fetchSince,       \* the argument of the getInboundMessages call in flight
  response,         \* the provider's answer on its way back, or NoResponse
  pending,          \* the messages of the for loop not yet processed
  \* ---- provider (the remote service)
  provider,         \* the messages the provider holds, in send order
  pushed,           \* identifiers the provider has pushed to the webhook
  \* ---- webhook onMessage callback (channel.ts)
  whInbox,          \* the onMessage calls in flight: the payload, and the
                    \* status already sent to the request that carried it
  \* ---- webhook servers (webhook.ts:83-84) and their requests
  servers,          \* serverId -> the configuration its handler closes over
  rateLimiters,     \* serverId -> InMemoryRateLimiter
  reqs,             \* requests whose 'data'/'end'/'error' listeners are set
  nreq,             \* requests received so far
  \* ---- ledger (db.ts)
  processed, history,
  \* ---- SseManager (sse.ts:16-17)
  clients, heartbeatInterval,
  streams,          \* what was written to the response of each connection
  \* ---- history variables of the model
  broadcasts,       \* every event handed to sseManager.broadcast, in order
  fetched,          \* identifiers some getInboundMessages call has returned
  raced,            \* identifiers both producers held unprocessed at once
  last,             \* the latest run of a webhook handler: its request, what
                    \* it answered and what it did, in order
  calls,            \* the isAllowed calls made directly on a limiter
  \* ---- the command surface (rpc.ts)
  sends,            \* 'send' commands awaiting poller.sendMessage
  replies,          \* the responses handleRpc has returned, in order
  nrpc,             \* commands received so far
  request,          \* the request of the latest call of handleRpc
  cycle             \* the cycle being processed: the messages its fetch
                    \* returned, the markers that existed then, and the
                    \* lengths of the two logs then

pollerVars == <<allowlist, isRunning, pollInterval, cleanupInterval, isPolling,
                lastPollTime, timers, pollPc, pollStart, fetchSince, response,
                pending>>
providerVars == <<provider, pushed>>
dbVars == <<processed, history>>
sseVars == <<clients, heartbeatInterval, streams, broadcasts>>
ghostVars == <<fetched, raced, cycle>>
webVars == <<servers, rateLimiters, reqs, nreq, last, calls>>
rpcVars == <<sends, replies, nrpc, request>>

vars == <<now, proc, pollerVars, providerVars, whInbox, webVars, rpcVars, dbVars, sseVars,
          ghostVars>>

----------------------------------------------------------------------------
(* Bounds of the model *)

MaxTicks == 2       \* clock ticks of one second
MaxSent == 2        \* messages the provider receives in one run
MaxReqs == 2        \* requests the webhook servers receive in one run
MaxChunks == 2      \* 'data' events of one request
MaxCalls == 4       \* direct calls of isAllowed in one run
MaxRpc == 3         \* commands received in one run
MaxClients == 2     \* SSE connections opened in one run
MaxFrames == 2      \* frames on a response when a heartbeat is still sent
MaxEvents == 2      \* process-level events in one run

----------------------------------------------------------------------------
(* Values *)

Null == "null"                  \* undefined / null

\* an absent string, and a value that is no string, where strings are
\* sequences of characters
Undefined == <<"undefined">>
NotAString == <<"number">>

\* a value || takes as false: undefined or the empty string
Falsy(v) == v = Undefined \/ v = <<>>

NoResponse == [kind |-> "none"]
NoCycle == [msgs |-> <<>>, marked |-> {}, bfrom |-> 0, hfrom |-> 0]
NoTime == 0 - 1               \* a local of poll() outside its cycle

Digits == {"0", "1", "2", "3", "4", "5", "6", "7", "8", "9"}
Whitespace == {" ", "\n", "\t"}

RECURSIVE TrimLeft(_)
TrimLeft(s) ==
  IF s # <<>> /\ Head(s) \in Whitespace THEN TrimLeft(Tail(s)) ELSE s

RECURSIVE TrimRight(_)
TrimRight(s) ==
  IF s # <<>> /\ s[Len(s)] \in Whitespace
    THEN TrimRight(SubSeq(s, 1, Len(s) - 1)) ELSE s

\* String.prototype.trim
Trim(s) == TrimRight(TrimLeft(s))

\* num.replace(/\D/g, '')
normalize(num) == SelectSeq(num, LAMBDA c : c \in Digits)

Range(s) == {s[i] : i \in 1..Len(s)}

\* The senders and the messages the provider can receive.  Each identifier
\* names one message (the provider never reuses an identifier).
SenderA == <<"+", "1", "5", "5", "5">>
SenderB == <<"+", "1", "7", "7", "7">>
AllowlistChoices == { <<>>, << <<"1", "-", "5", "5", "5">> >> }

Catalog ==
  { [message_handle |-> "A", from_number |-> SenderA,
     content |-> <<" ", "h", "i", " ">>, media_url |-> Null],
    [message_handle |-> "B", from_number |-> SenderA,
     content |-> Null, media_url |-> <<"u">>],
    [message_handle |-> "C", from_number |-> SenderB,
     content |-> <<"y", "o">>, media_url |-> <<"u">>],
    [message_handle |-> "D", from_number |-> SenderA,
     content |-> <<" ", " ">>, media_url |-> Null] }

Ids == {m.message_handle : m \in Catalog}

\* a message the provider returns without the sender field
Malformed ==
  [message_handle |-> "M", from_number |-> Undefined,
   content |-> <<"y", "o">>, media_url |-> Null]

\* The provider's copy of a message: the catalog entry sent at time t.
Sent(m, t) ==
  [message_handle |-> m.message_handle, from_number |-> m.from_number,
   content |-> m.content, media_url |-> m.media_url,
   date_sent |-> t, is_outbound |-> FALSE]

IdsOf(seq) == {seq[i].message_handle : i \in 1..Len(seq)}

\* the identifiers of the payloads of the onMessage calls in flight
InboxIds(inbox) == {inbox[i].msg.message_handle : i \in 1..Len(inbox)}

----------------------------------------------------------------------------
(* Ledger (db.ts), from spec.md 4.1 *)

isMessageProcessed(id) == id \in processed

markMessageProcessed(id) == processed \cup {id}

addConversationMessage(h, chatId, from, content, isOutbound) ==
  Append(h, [chat_id |-> chatId, from_number |-> from, content |-> content,
             is_outbound |-> isOutbound])

----------------------------------------------------------------------------
(* SseManager.broadcast (sse.ts:71-100) *)

\* The clients a broadcast or heartbeat drops: those whose response has
\* ended, and those whose write throws.
DeadClients(throwing) ==
  {c \in DOMAIN clients : clients[c].ended \/ c \in throwing}

\* the same without the removal of the clients whose write threw
ClientsAfterWriteKeepingDead(frame, throwing) ==
  [c \in DOMAIN clients |->
     IF c \in DeadClients(throwing) THEN clients[c]
     ELSE [clients[c] EXCEPT !.frames = Append(@, frame)]]

\* clients after one frame was written to every writable client; the
\* write to a client of `throwing` throws before the frame is queued.
ClientsAfterWrite(frame, throwing) ==
  [c \in DOMAIN clients \ DeadClients(throwing) |->
     [clients[c] EXCEPT !.frames = Append(@, frame)]]

\* the responses of the connections, after the same
StreamsAfterWrite(frame, throwing) ==
  [k \in DOMAIN streams |->
     IF k \in DOMAIN clients \ DeadClients(throwing)
       THEN [streams[k] EXCEPT !.frames = Append(@, frame)]
       ELSE streams[k]]

\* sse.ts:71-100 broadcast and 105-126 sendHeartbeat: the loop over the
\* clients and the removal of the dead ones
WriteAll(frame) ==
  \E throwing \in SUBSET {c \in DOMAIN clients : ~clients[c].ended} :
    /\ clients' = ClientsAfterWrite(frame, throwing)
    /\ streams' = StreamsAfterWrite(frame, throwing)

Broadcast(event) ==
  /\ WriteAll(event)
  /\ broadcasts' = Append(broadcasts, event)
  /\ UNCHANGED heartbeatInterval

\* sse.ts:39   { connected: true, id }
Ack(id) == [connected |-> TRUE, id |-> id]
\* sse.ts:108  `: heartbeat ${Date.now()}`
Heartbeat == [heartbeat |-> now]

\* the frames addClient writes before it registers the client
FirstFramesNone(id) == <<>>
FirstFrames(id) == <<Ack(id)>>

\* sse.ts:27-56 addClient, called for GET /api/v1/events (index.ts:104-107).
\* The identifier `sse-${Date.now()}-${random}` is taken to differ from
\* every earlier one: it is the number of the connection.
AddClient ==
  /\ Len(streams) < MaxClients
  /\ LET id == Len(streams) + 1 IN
       /\ streams' = Append(streams, [id |-> id, ended |-> FALSE,
                                      frames |-> FirstFrames(id)])
       /\ clients' = [c \in DOMAIN clients \cup {id} |->
                       IF c = id
                         THEN [ended |-> FALSE, frames |-> FirstFrames(id)]
                         ELSE clients[c]]
  /\ UNCHANGED <<now, proc, pollerVars, providerVars, whInbox, webVars, rpcVars,
                 dbVars, heartbeatInterval, broadcasts, ghostVars>>

\* sse.ts:51-53 and 61-66: the response of connection k emits 'close';
\* removeClient does nothing for a client a failed write already removed
ClientClose(k) ==
  /\ streams[k].id \in DOMAIN clients
  /\ clients' = [c \in DOMAIN clients \ {streams[k].id} |-> clients[c]]
  /\ UNCHANGED <<streams, now, proc, pollerVars, providerVars, whInbox, webVars, rpcVars,
                 dbVars, heartbeatInterval, broadcasts, ghostVars>>

\* sse.ts:105-126 and 131-137: the heartbeat interval fires
SendHeartbeat ==
  /\ heartbeatInterval
  /\ \A c \in DOMAIN clients : Len(clients[c].frames) < MaxFrames
  /\ IF DOMAIN clients = {}
       THEN UNCHANGED <<clients, streams>>
       ELSE WriteAll(Heartbeat)
  /\ UNCHANGED <<now, proc, pollerVars, providerVars, whInbox, webVars, rpcVars,
                 dbVars, heartbeatInterval, broadcasts, ghostVars>>

----------------------------------------------------------------------------
(* Poller.processMessage (poller.ts:131-188) *)

\* an allowlist that lets every sender through
isAllowedAnyone(phoneNumber) == TRUE

\* poller.ts:86-94
isAllowed(phoneNumber) ==
  IF allowlist = <<>> THEN TRUE
  ELSE \E i \in 1..Len(allowlist) :
         normalize(allowlist[i]) = normalize(phoneNumber)

\* poller.ts:146   msg.content?.trim() || ''
ContentOf(msg) == IF msg.content = Null THEN <<>> ELSE Trim(msg.content)

\* a media_url that is undefined or '' is falsy
HasMedia(msg) == msg.media_url # Null /\ msg.media_url # <<>>

MediaNotice(mediaUrl) == <<"[Media: ">> \o mediaUrl \o <<"]">>

\* the content without the media notice
MessageContentTextOnly(msg) == ContentOf(msg)

\* poller.ts:155-159
MessageContent(msg) ==
  IF HasMedia(msg)
    THEN IF ContentOf(msg) # <<>>
           THEN ContentOf(msg) \o <<"\n", "\n">> \o MediaNotice(msg.media_url)
           ELSE MediaNotice(msg.media_url)
    ELSE ContentOf(msg)

\* poller.ts:172-182
EventOf(msg) ==
  [method |-> "message",
   chat_id |-> msg.from_number, from |-> msg.from_number,
   content |-> MessageContent(msg), timestamp |-> msg.date_sent,
   message_id |-> msg.message_handle,
   media_url |-> IF HasMedia(msg) THEN msg.media_url ELSE Null]

\* the check of lines 133-135 left out
SkipProcessedNever(msg) == FALSE

\* poller.ts:133-135: the message is dropped when its marker exists
SkipProcessed(msg) == isMessageProcessed(msg.message_handle)

\* poller.ts:140-152: marked, then dropped by the allowlist or for being empty
Dropped(msg) ==
  \/ ~isAllowed(msg.from_number)
  \/ (ContentOf(msg) = <<>> /\ ~HasMedia(msg))

\* poller.ts:163-187: history append, then broadcast
Deliver(msg) ==
  /\ history' = addConversationMessage(history, msg.from_number,
                                       msg.from_number, MessageContent(msg), FALSE)
  /\ Broadcast(EventOf(msg))

\* poller.ts:91, 142 and 161: a method is called on msg.from_number, at 91
\* only when there is an allowlist, at 161 only when the message has text
\* or media
Throws(msg) ==
  /\ msg.from_number = Undefined
  /\ allowlist # <<>> \/ ~(ContentOf(msg) = <<>> /\ ~HasMedia(msg))

\* processMessage without line 138: the marker is never written
processMessageNoMark(msg) ==
  IF SkipProcessed(msg)
    THEN UNCHANGED <<dbVars, sseVars>>
    ELSE /\ UNCHANGED processed
         /\ IF Dropped(msg)
              THEN UNCHANGED <<history, sseVars>>
              ELSE Deliver(msg)

\* processMessage with line 138 moved into the two early returns of
\* 141-152: a message that is delivered gets no marker
processMessageMarkLate(msg) ==
  IF SkipProcessed(msg)
    THEN UNCHANGED <<dbVars, sseVars>>
    ELSE IF Dropped(msg)
           THEN /\ processed' = markMessageProcessed(msg.message_handle)
                /\ UNCHANGED <<history, sseVars>>
           ELSE /\ UNCHANGED processed
                /\ Deliver(msg)

processMessage(msg) ==
  IF SkipProcessed(msg)
    THEN UNCHANGED <<dbVars, sseVars>>
    ELSE /\ processed' = markMessageProcessed(msg.message_handle)
         /\ IF Dropped(msg)
              THEN UNCHANGED <<history, sseVars>>
              ELSE Deliver(msg)

----------------------------------------------------------------------------
(* Poller.poll (poller.ts:99-126) and the provider's side of the fetch *)

\* the identifiers both producers hold unprocessed in the next state
RacingNext == IdsOf(pending') \cap InboxIds(whInbox')

\* poll() without the test of isPolling
PollBeginUnguarded ==
  /\ isPolling' = TRUE
  /\ pollStart' = now
  /\ fetchSince' = lastPollTime
  /\ pollPc' = "fetching"
  /\ response' = NoResponse

\* poller.ts:100-108: from the entry of poll() to the await of the fetch
PollBegin ==
  IF isPolling
    THEN UNCHANGED <<isPolling, pollPc, pollStart, fetchSince, response>>
    ELSE /\ isPolling' = TRUE
         /\ pollStart' = now
         /\ fetchSince' = lastPollTime
         /\ pollPc' = "fetching"
         /\ response' = NoResponse

\* sendblue.getInboundMessages, spec.md 4.3 step 1 and section 6: every
\* message the provider holds with a send timestamp at or after `since`
getInboundMessages(since) ==
  SelectSeq(provider, LAMBDA m : m.date_sent >= since)

\* The provider answers the request in flight, or the request fails.
ProviderRespond ==
  /\ pollPc = "fetching" /\ response = NoResponse
  /\ \/ response' = [kind |-> "ok", messages |-> getInboundMessages(fetchSince)]
     \/ response' = [kind |-> "error"]
  /\ UNCHANGED <<now, proc, allowlist, isRunning, pollInterval, cleanupInterval, timers,
                 isPolling, lastPollTime, pollPc, pollStart, fetchSince, pending,
                 providerVars, whInbox, webVars, rpcVars, dbVars, sseVars, ghostVars>>

\* poller.ts:109   this.lastPollTime = new Date()
CursorAtPollStart == pollStart
CursorAfterFetch == now

\* poller.ts:108-117 and 120-125: the await of the fetch resumes
PollResume ==
  /\ pollPc = "fetching" /\ response # NoResponse
  /\ IF response.kind = "ok"
       THEN /\ lastPollTime' = CursorAfterFetch
            /\ pending' = response.messages
            /\ pollPc' = "processing"
            /\ fetched' = fetched \cup IdsOf(response.messages)
            /\ cycle' = [msgs |-> response.messages,
                         marked |-> processed \cap IdsOf(response.messages),
                         bfrom |-> Len(broadcasts), hfrom |-> Len(history)]
            /\ UNCHANGED <<isPolling, pollStart>>
       ELSE /\ isPolling' = FALSE
            /\ pollPc' = "idle"
            /\ pollStart' = NoTime
            /\ UNCHANGED <<lastPollTime, pending, fetched, cycle>>
  /\ response' = NoResponse
  /\ fetchSince' = NoTime
  /\ UNCHANGED <<now, proc, allowlist, isRunning, pollInterval, cleanupInterval, timers,
                 providerVars, whInbox, webVars, rpcVars, dbVars, sseVars>>
  /\ raced' = raced \cup RacingNext

\* the for loop going through the response from its last message to its
\* first
PollStepLastFirst ==
  /\ pollPc = "processing"
  /\ IF pending = <<>>
       THEN /\ isPolling' = FALSE
            /\ pollPc' = "idle"
            /\ pollStart' = NoTime
            /\ cycle' = NoCycle
            /\ UNCHANGED <<pending, dbVars, sseVars>>
       ELSE IF ~SkipProcessed(pending[Len(pending)]) /\ Throws(pending[Len(pending)])
         THEN \* the marker of line 138 is written, the TypeError leaves the
              \* loop for the catch of 120-122 and the finally
              /\ processed' = markMessageProcessed(pending[Len(pending)].message_handle)
              /\ pending' = <<>>
              /\ isPolling' = FALSE
              /\ pollPc' = "idle"
              /\ pollStart' = NoTime
              /\ cycle' = NoCycle
              /\ UNCHANGED <<history, sseVars>>
         ELSE /\ processMessage(pending[Len(pending)])
              /\ pending' = SubSeq(pending, 1, Len(pending) - 1)
              /\ UNCHANGED <<isPolling, pollPc, pollStart, cycle>>
  /\ UNCHANGED <<now, proc, allowlist, isRunning, pollInterval, cleanupInterval, timers,
                 lastPollTime, fetchSince, response,
                 providerVars, whInbox, webVars, rpcVars, fetched, raced>>

\* poller.ts:117-119 and 123-125: one turn of the for loop, or its end
PollStep ==
  /\ pollPc = "processing"
  /\ IF pending = <<>>
       THEN /\ isPolling' = FALSE
            /\ pollPc' = "idle"
            /\ pollStart' = NoTime
            /\ cycle' = NoCycle
            /\ UNCHANGED <<pending, dbVars, sseVars>>
       ELSE IF ~SkipProcessed(Head(pending)) /\ Throws(Head(pending))
         THEN \* the marker of line 138 is written, the TypeError leaves the
              \* loop for the catch of 120-122 and the finally
              /\ processed' = markMessageProcessed(Head(pending).message_handle)
              /\ pending' = <<>>
              /\ isPolling' = FALSE
              /\ pollPc' = "idle"
              /\ pollStart' = NoTime
              /\ cycle' = NoCycle
              /\ UNCHANGED <<history, sseVars>>
         ELSE /\ processMessage(Head(pending))
              /\ pending' = Tail(pending)
              /\ UNCHANGED <<isPolling, pollPc, pollStart, cycle>>
  /\ UNCHANGED <<now, proc, allowlist, isRunning, pollInterval, cleanupInterval, timers,
                 lastPollTime, fetchSince, response,
                 providerVars, whInbox, webVars, rpcVars, fetched, raced>>

----------------------------------------------------------------------------
(* Poller.start, Poller.stop and the interval timer (poller.ts:38-81) *)

\* start() without the guard of poller.ts:39-42
startUnguarded ==
  /\ isRunning' = TRUE
  /\ PollBegin
  /\ pollInterval' = TRUE
  /\ timers' = timers + 1
  /\ cleanupInterval' = TRUE

\* Poller.start, on the fields of the Poller and the timers of the process
start ==
  IF isRunning
    THEN UNCHANGED <<isRunning, pollInterval, cleanupInterval, timers,
                     isPolling, pollPc, pollStart, fetchSince, response>>
    ELSE /\ isRunning' = TRUE
         /\ PollBegin
         /\ pollInterval' = TRUE
         /\ timers' = timers + 1
         /\ cleanupInterval' = TRUE

\* stop() that also gives up the cycle in flight
stopAborting ==
  /\ pollInterval' = FALSE
  /\ timers' = IF pollInterval THEN timers - 1 ELSE timers
  /\ cleanupInterval' = FALSE
  /\ isRunning' = FALSE
  /\ isPolling' = FALSE
  /\ pollPc' = "idle"
  /\ pollStart' = NoTime
  /\ fetchSince' = NoTime
  /\ response' = NoResponse

\* Poller.stop, on the same
stop ==
  /\ pollInterval' = FALSE
  /\ timers' = IF pollInterval THEN timers - 1 ELSE timers
  /\ cleanupInterval' = FALSE
  /\ isRunning' = FALSE
  /\ UNCHANGED <<isPolling, pollPc, pollStart, fetchSince, response>>

Start ==
  /\ start
  /\ UNCHANGED <<now, proc, allowlist, lastPollTime, pending, providerVars, whInbox,
                 webVars, rpcVars, dbVars, sseVars, ghostVars>>

\* stop() that also rewinds the cursor to the constructor's lookback
StopRewindingCursor ==
  /\ stop
  /\ lastPollTime' = now - 60 * 1000
  /\ UNCHANGED <<now, proc, allowlist, pending, providerVars, whInbox,
                 webVars, rpcVars, dbVars, sseVars, ghostVars>>

Stop ==
  /\ stop
  /\ UNCHANGED <<now, proc, allowlist, lastPollTime, pending, providerVars, whInbox,
                 webVars, rpcVars, dbVars, sseVars, ghostVars>>

\* poller.ts:55-57: the interval fires
PollTimer ==
  /\ timers > 0
  /\ PollBegin
  /\ UNCHANGED <<now, proc, allowlist, isRunning, pollInterval, cleanupInterval, timers,
                 lastPollTime, pending, providerVars, whInbox, webVars, rpcVars, dbVars,
                 sseVars, ghostVars>>

----------------------------------------------------------------------------
(* The environment: the clock, the provider, and its webhook push *)

Tick ==
  /\ now < MaxTicks * 1000
  /\ now' = now + 1000
  /\ UNCHANGED <<proc, pollerVars, providerVars, whInbox, webVars, rpcVars, dbVars,
                 sseVars, ghostVars>>

\* Somebody sends a message: the provider stamps and stores it.
ProviderReceive ==
  /\ Len(provider) < MaxSent
  /\ \E m \in Catalog :
       /\ m.message_handle \notin IdsOf(provider)
       /\ provider' = Append(provider, Sent(m, now))
  /\ UNCHANGED <<now, proc, pollerVars, pushed, whInbox, webVars, rpcVars, dbVars, sseVars,
                 ghostVars>>

\* The provider stores a message that has no sender.
ProviderReceiveMalformed ==
  /\ Len(provider) < MaxSent
  /\ Malformed.message_handle \notin IdsOf(provider)
  /\ provider' = Append(provider, Sent(Malformed, now))
  /\ UNCHANGED <<now, proc, pollerVars, pushed, whInbox, webVars, rpcVars, dbVars, sseVars,
                 ghostVars>>

----------------------------------------------------------------------------
(* webhook.ts: the rate limiter *)

DefaultWindowMs == 60000        \* the window when none is configured
DefaultMaxRequests == 60        \* the ceiling when none is configured
RetryAfterSeconds == 60         \* the Retry-After header of a 429
MAX_BODY_SIZE == 1024 * 1024

EmptyMap == [k \in {} |-> k]
Without(f, k) == [x \in DOMAIN f \ {k} |-> f[x]]

\* a || b on numbers: 0 (and undefined, written 0 here) gives way to b
OrDefault(a, b) == IF a = 0 THEN b ELSE a

\* new InMemoryRateLimiter(windowMs, maxRequests)
NewLimiter(windowMs, maxRequests) ==
  [windowMs |-> windowMs, maxRequests |-> maxRequests, requests |-> EmptyMap,
   cleanupInterval |-> TRUE]

\* now - entry.windowStart > this.windowMs
Expired(lim, entry) == now - entry.windowStart > lim.windowMs

\* the check with > in place of >=, which lets one call too many through
AtCeilingOffByOne(lim, entry) == entry.count > lim.maxRequests

\* entry.count >= this.maxRequests
AtCeiling(lim, entry) == entry.count >= lim.maxRequests

\* InMemoryRateLimiter.isAllowed: the answer, and the limiter afterwards
isAllowedRun(lim, identifier) ==
  IF identifier \notin DOMAIN lim.requests
     \/ Expired(lim, lim.requests[identifier])
    THEN [allowed |-> TRUE,
          limiter |-> [lim EXCEPT !.requests =
                         (identifier :> [count |-> 1, windowStart |-> now])
                           @@ lim.requests]]
    ELSE IF AtCeiling(lim, lim.requests[identifier])
      THEN [allowed |-> FALSE, limiter |-> lim]
      ELSE [allowed |-> TRUE,
            limiter |-> [lim EXCEPT !.requests[identifier].count = @ + 1]]

\* InMemoryRateLimiter.cleanup
cleanup(lim) ==
  [lim EXCEPT !.requests =
     [k \in {x \in DOMAIN lim.requests : ~Expired(lim, lim.requests[x])}
        |-> lim.requests[k]]]

----------------------------------------------------------------------------
(* webhook.ts: requests, headers and payloads *)

ServerIds == {"sendblue"}
TwoServerIds == {"sendblue", "other"}
WebhookPath == <<"/", "w">>
HealthUrl == <<"/", "h">>
Secret == <<"s", "3", "c">>
WrongSecret == <<"b", "a", "d">>
BearerPrefix == <<"B", "e", "a", "r", "e", "r", " ">>

\* String.prototype.startsWith and slice(n)
startsWith(s, prefix) ==
  Len(s) >= Len(prefix) /\ SubSeq(s, 1, Len(prefix)) = prefix
slice(s, n) == SubSeq(s, n + 1, Len(s))

NoHeaders == [xSendblueSecret |-> Undefined, xWebhookSecret |-> Undefined,
              xApiKey |-> Undefined, authorization |-> Undefined]

\* the secret headers a request can carry
HeaderChoices ==
  { NoHeaders,
    [NoHeaders EXCEPT !.xSendblueSecret = Secret],
    [NoHeaders EXCEPT !.xWebhookSecret = Secret],
    [NoHeaders EXCEPT !.xApiKey = Secret],
    [NoHeaders EXCEPT !.authorization = Secret],
    [NoHeaders EXCEPT !.authorization = BearerPrefix \o Secret],
    [NoHeaders EXCEPT !.authorization = BearerPrefix \o WrongSecret],
    [NoHeaders EXCEPT !.xSendblueSecret = WrongSecret],
    [NoHeaders EXCEPT !.xSendblueSecret = WrongSecret, !.xApiKey = Secret],
    [NoHeaders EXCEPT !.xSendblueSecret = <<>>,
                      !.authorization = BearerPrefix \o Secret],
    [NoHeaders EXCEPT !.xApiKey = BearerPrefix \o Secret] }

\* the requests a server can receive
RequestChoices ==
  { [method |-> "GET", url |-> HealthUrl, remoteAddress |-> "10.0.0.1",
     headers |-> NoHeaders],
    [method |-> "GET", url |-> WebhookPath, remoteAddress |-> "10.0.0.1",
     headers |-> NoHeaders],
    [method |-> "POST", url |-> HealthUrl, remoteAddress |-> "10.0.0.1",
     headers |-> NoHeaders],
    [method |-> "POST", url |-> WebhookPath \o <<"?">>,
     remoteAddress |-> Null,
     headers |-> [NoHeaders EXCEPT !.xSendblueSecret = Secret]] }
  \cup
  { [method |-> "POST", url |-> WebhookPath, remoteAddress |-> "10.0.0.1",
     headers |-> h] : h \in HeaderChoices }

\* what JSON.parse makes of a body: it throws ("invalid"), or yields null,
\* a scalar or an object, whose fields are read only in the last case; a
\* field that is absent is Null or Undefined, one that is no string is
\* "number" or NotAString
Payload(msg) == [json |-> "object"] @@ msg
InboundA == Payload(Sent(CHOOSE m \in Catalog : m.message_handle = "A", 0))
Unparseable == [InboundA EXCEPT !.json = "invalid"]
JsonNull == [InboundA EXCEPT !.json = "null"]
JsonScalar == [InboundA EXCEPT !.json = "scalar"]
PayloadChoices ==
  { Unparseable, JsonNull, JsonScalar, InboundA,
    [InboundA EXCEPT !.is_outbound = TRUE],
    [InboundA EXCEPT !.message_handle = Null],
    [InboundA EXCEPT !.message_handle = "number"],
    [InboundA EXCEPT !.message_handle = ""],
    [InboundA EXCEPT !.from_number = Undefined],
    [InboundA EXCEPT !.from_number = <<>>] }
ChunkSizes == {16, MAX_BODY_SIZE}

\* typeof v === 'string', of a message_handle and of a from_number
IsStringHandle(v) == v \notin {Null, "number"}
IsString(v) == v \notin {Undefined, NotAString}

\* isValidSendbluePayload without the two length checks
isValidSendbluePayloadLax(payload) ==
  /\ payload.json = "object"
  /\ IsStringHandle(payload.message_handle)
  /\ IsString(payload.from_number)

isValidSendbluePayload(payload) ==
  /\ payload.json = "object"
  /\ IsStringHandle(payload.message_handle)
  /\ IsString(payload.from_number)
  /\ payload.message_handle # ""
  /\ payload.from_number # <<>>

\* headers[a] || headers[b] || headers[c] || headers[d]
providedSecret(headers) ==
  IF ~Falsy(headers.xSendblueSecret) THEN headers.xSendblueSecret
  ELSE IF ~Falsy(headers.xWebhookSecret) THEN headers.xWebhookSecret
  ELSE IF ~Falsy(headers.xApiKey) THEN headers.xApiKey
  ELSE headers.authorization

verifySecret(headers, expectedSecret) ==
  LET provided == providedSecret(headers)
      token == IF startsWith(provided, BearerPrefix)
                 THEN slice(provided, Len(BearerPrefix)) ELSE provided
  IN  IsString(provided) /\ token = expectedSecret

----------------------------------------------------------------------------
(* webhook.ts: startWebhookServer and the handler of its http server *)

RateLimitChoices ==
  { [windowMs |-> 0, maxRequests |-> 0],       \* none configured
    [windowMs |-> 1000, maxRequests |-> 1],
    [windowMs |-> 2000, maxRequests |-> 2] }

NoLast == [run |-> "none", sid |-> Null, req |-> Null, payload |-> Null,
           before |-> 0, status |-> 0, retryAfter |-> 0, trace |-> <<>>,
           big |-> FALSE]

\* the body, the flag and the response of a request past the checks; status
\* is 0 until res.writeHead has been called; big tells whether the body the
\* client sends is longer than MAX_BODY_SIZE
NewRequest(sid, big) ==
  [sid |-> sid, len |-> 0, chunks |-> 0, bodyTooLarge |-> FALSE, status |-> 0,
   big |-> big]

RemoveAt(seq, i) == SubSeq(seq, 1, i - 1) \o SubSeq(seq, i + 1, Len(seq))

\* startWebhookServer without the test for a registered serverId
StartWebhookServerAgain(sid) ==
  /\ \E secret \in {Undefined, Secret}, rl \in RateLimitChoices :
       /\ rateLimiters' =
            (sid :> NewLimiter(OrDefault(rl.windowMs, DefaultWindowMs),
                               OrDefault(rl.maxRequests, DefaultMaxRequests)))
              @@ rateLimiters
       /\ servers' = (sid :> [path |-> WebhookPath, secret |-> secret,
                              closing |-> FALSE]) @@ servers
  /\ UNCHANGED <<now, proc, pollerVars, providerVars, whInbox, reqs, nreq, last,
                 calls, rpcVars, dbVars, sseVars, ghostVars>>

StartWebhookServer(sid) ==
  /\ \E secret \in {Undefined, Secret}, rl \in RateLimitChoices :
       IF sid \in DOMAIN servers
         THEN UNCHANGED <<servers, rateLimiters>>
         ELSE /\ rateLimiters' =
                   (sid :> NewLimiter(OrDefault(rl.windowMs, DefaultWindowMs),
                                      OrDefault(rl.maxRequests,
                                                DefaultMaxRequests)))
                     @@ rateLimiters
              /\ servers' = (sid :> [path |-> WebhookPath, secret |-> secret,
                                     closing |-> FALSE]) @@ servers
  /\ UNCHANGED <<now, proc, pollerVars, providerVars, whInbox, reqs, nreq, last,
                 calls, rpcVars, dbVars, sseVars, ghostVars>>

\* stopWebhookServer up to server.close(): the limiter goes at once
StopWebhookServer(sid) ==
  /\ rateLimiters' = Without(rateLimiters, sid)
  /\ servers' = IF sid \in DOMAIN servers
                  THEN [servers EXCEPT ![sid].closing = TRUE] ELSE servers
  /\ UNCHANGED <<now, proc, pollerVars, providerVars, whInbox, reqs, nreq, last,
                 calls, rpcVars, dbVars, sseVars, ghostVars>>

\* the callback of server.close()
ServerClosed(sid) ==
  /\ sid \in DOMAIN servers /\ servers[sid].closing
  /\ \A i \in 1..Len(reqs) : reqs[i].sid # sid
  /\ servers' = Without(servers, sid)
  /\ UNCHANGED <<now, proc, pollerVars, providerVars, whInbox, rateLimiters, reqs,
                 nreq, last, calls, rpcVars, dbVars, sseVars, ghostVars>>

\* the request listener, from the arrival of a request to the point where
\* it has answered or has set the 'data', 'error' and 'end' listeners
HandleRequestOf(sid, choices) ==
  /\ sid \in DOMAIN servers
  /\ nreq < MaxReqs
  /\ \E rq \in choices, big \in BOOLEAN :
       LET clientIP == IF rq.remoteAddress = Null
                         THEN "unknown" ELSE rq.remoteAddress
           limited == sid \in DOMAIN rateLimiters
           run == isAllowedRun(rateLimiters[sid], clientIP)
           Answer(status, retryAfter) ==
             last' = [NoLast EXCEPT !.run = "request", !.sid = sid,
                                    !.req = rq, !.status = status,
                                    !.retryAfter = retryAfter,
                                    !.big = big]
       IN  IF rq.method = "GET" /\ rq.url = HealthUrl
             THEN Answer(200, 0) /\ UNCHANGED <<rateLimiters, reqs>>
           ELSE IF rq.method # "POST" \/ ~startsWith(rq.url, servers[sid].path)
             THEN Answer(404, 0) /\ UNCHANGED <<rateLimiters, reqs>>
           ELSE IF limited /\ ~run.allowed
             THEN Answer(429, RetryAfterSeconds)
                  /\ UNCHANGED <<rateLimiters, reqs>>
           ELSE /\ rateLimiters' =
                     IF limited
                       THEN [rateLimiters EXCEPT ![sid] = run.limiter]
                       ELSE rateLimiters
                /\ IF ~Falsy(servers[sid].secret)
                      /\ ~verifySecret(rq.headers, servers[sid].secret)
                     THEN Answer(401, 0) /\ reqs' = reqs
                     ELSE Answer(0, 0)
                          /\ reqs' = Append(reqs, NewRequest(sid, big))
  /\ nreq' = nreq + 1
  /\ UNCHANGED <<now, proc, pollerVars, providerVars, whInbox, servers, calls,
                 rpcVars, dbVars, sseVars, ghostVars>>

HandleRequest(sid) == HandleRequestOf(sid, RequestChoices)

\* the requests sent to the servers when two of them run
FewRequestChoices ==
  { [method |-> "GET", url |-> HealthUrl, remoteAddress |-> "10.0.0.1",
     headers |-> NoHeaders],
    [method |-> "POST", url |-> WebhookPath, remoteAddress |-> "10.0.0.1",
     headers |-> NoHeaders],
    [method |-> "POST", url |-> WebhookPath, remoteAddress |-> "10.0.0.1",
     headers |-> [NoHeaders EXCEPT !.xSendblueSecret = Secret]] }

\* req.on('data'); the listener stays set after req.destroy(), and a chunk
\* emitted after it finds bodyTooLarge set
OnData(i) ==
  /\ reqs[i].chunks < MaxChunks
  /\ \E chunk \in ChunkSizes :
       LET r == reqs[i]
           len == r.len + chunk
           after == IF r.bodyTooLarge THEN [r EXCEPT !.chunks = @ + 1]
                    ELSE IF len > MAX_BODY_SIZE
                      THEN [r EXCEPT !.chunks = @ + 1, !.len = len,
                                     !.bodyTooLarge = TRUE, !.status = 413]
                      ELSE [r EXCEPT !.chunks = @ + 1, !.len = len]
       IN  /\ after.bodyTooLarge => r.big
           /\ reqs' = [reqs EXCEPT ![i] = after]
           /\ last' = [NoLast EXCEPT !.run = "data", !.sid = r.sid,
                                     !.big = r.big,
                                     !.before = r.status,
                                     !.status = after.status]
  /\ UNCHANGED <<now, proc, pollerVars, providerVars, whInbox, servers,
                 rateLimiters, nreq, calls, rpcVars, dbVars, sseVars,
                 ghostVars>>

\* req.on('error'): the request emits nothing after it
OnError(i) ==
  /\ last' = [NoLast EXCEPT !.run = "error", !.sid = reqs[i].sid,
                            !.before = reqs[i].status,
                            !.status = IF reqs[i].status = 0
                                         THEN 500 ELSE reqs[i].status]
  /\ reqs' = RemoveAt(reqs, i)
  /\ UNCHANGED <<now, proc, pollerVars, providerVars, whInbox, servers,
                 rateLimiters, nreq, calls, rpcVars, dbVars, sseVars,
                 ghostVars>>

\* if (bodyTooLarge || res.headersSent) return
EndSkips(r) == r.bodyTooLarge \/ r.status # 0

\* onMessage called before the response is written
DispatchThenAck == <<"onMessage", "200">>

\* res.writeHead(200) and res.end, then await onMessage(payload)
AckThenDispatch == <<"200", "onMessage">>

\* req.on('end') up to its first await: the status the request has
\* afterwards and what the listener did, in order
EndOutcome(r, payload) ==
  IF EndSkips(r) THEN [status |-> r.status, trace |-> <<>>]
  ELSE IF payload.json = "invalid" THEN [status |-> 400, trace |-> <<"400">>]
  ELSE IF ~isValidSendbluePayload(payload)
    THEN [status |-> 400, trace |-> <<"400">>]
  ELSE IF payload.is_outbound THEN [status |-> 200, trace |-> <<"200">>]
  ELSE [status |-> 200, trace |-> AckThenDispatch]

OnEnd(i) ==
  /\ reqs[i].big => reqs[i].bodyTooLarge
  /\ \E payload \in IF reqs[i].len = 0 THEN {Unparseable} ELSE PayloadChoices :
       LET out == EndOutcome(reqs[i], payload) IN
         /\ last' = [NoLast EXCEPT !.run = "end", !.sid = reqs[i].sid,
                                   !.payload = payload,
                                   !.before = reqs[i].status,
                                   !.status = out.status,
                                   !.trace = out.trace]
         /\ whInbox' = IF "onMessage" \in Range(out.trace)
                         THEN Append(whInbox, [msg |-> payload,
                                               status |-> out.status])
                         ELSE whInbox
  /\ reqs' = RemoveAt(reqs, i)
  /\ UNCHANGED <<now, proc, pollerVars, providerVars, servers, rateLimiters, nreq,
                 calls, rpcVars, dbVars, sseVars, ghostVars>>

\* the catch around await onMessage(payload) only logs
OnMessageFails ==
  /\ \E i \in 1..Len(whInbox) :
       /\ whInbox' = RemoveAt(whInbox, i)
       /\ last' = [NoLast EXCEPT !.run = "failed",
                                 !.payload = whInbox[i].msg,
                                 !.before = whInbox[i].status,
                                 !.status = whInbox[i].status]
  /\ UNCHANGED <<now, proc, pollerVars, providerVars, servers, rateLimiters, reqs,
                 nreq, calls, rpcVars, dbVars, sseVars, ghostVars>>

\* limiter.isAllowed(identifier), called on the limiter of a server
RateIsAllowed(sid) ==
  /\ sid \in DOMAIN rateLimiters
  /\ Len(calls) < MaxCalls
  /\ \E identifier \in {"10.0.0.1", "unknown"} :
       LET run == isAllowedRun(rateLimiters[sid], identifier) IN
         /\ rateLimiters' = [rateLimiters EXCEPT ![sid] = run.limiter]
         /\ calls' = Append(calls, [identifier |-> identifier, at |-> now,
                                    allowed |-> run.allowed])
  /\ UNCHANGED <<now, proc, pollerVars, providerVars, whInbox, servers, reqs, nreq,
                 last, rpcVars, dbVars, sseVars, ghostVars>>

\* the limiter's cleanup timer
RateCleanup(sid) ==
  /\ sid \in DOMAIN rateLimiters
  /\ rateLimiters[sid].cleanupInterval
  /\ rateLimiters' = [rateLimiters EXCEPT ![sid] = cleanup(@)]
  /\ UNCHANGED <<now, proc, pollerVars, providerVars, whInbox, servers, reqs, nreq,
                 last, calls, rpcVars, dbVars, sseVars, ghostVars>>

----------------------------------------------------------------------------
(* rpc.ts: the 'send' command, and Poller.sendMessage *)

OurNumber == <<"+", "1", "0", "0", "0">>    \* config.sendblue.phoneNumber
ToChoices == {Undefined, <<>>, SenderA, SenderB}
ContentChoices == {Undefined, <<>>, <<"h", "i">>}
InvalidParams == 0 - 32602
InternalError == 0 - 32603

MethodNotFound == 0 - 32601
NoRequestId == 0 - 1        \* a request without an id
NullId == 0 - 2             \* the id null of a response

success(id, result) == [id |-> id, kind |-> "result", result |-> result]
error(id, code) == [id |-> id, kind |-> "error", code |-> code]

\* a request as handleRpc receives it: what JSON.parse made of the body
\* ("object" or "null"), and the fields the handler reads; `fault` tells
\* whether the ledger call of the method throws
NoRequest == [body |-> "none", method |-> "none", id |-> NoRequestId,
              to |-> Undefined, content |-> Undefined, chat_id |-> Undefined,
              fault |-> FALSE, threw |-> FALSE]

\* handleRpc, case 'send', up to the await in Poller.sendMessage
RpcSend ==
  /\ nrpc < MaxRpc
  /\ nrpc' = nrpc + 1
  /\ \E to \in ToChoices, content \in ContentChoices :
       /\ request' = [NoRequest EXCEPT !.body = "object", !.method = "send",
                                       !.id = nrpc + 1, !.to = to,
                                       !.content = content]
       /\ IF Falsy(to) \/ content = Undefined
            THEN /\ replies' = Append(replies, error(nrpc + 1, InvalidParams))
                 /\ sends' = sends
            ELSE /\ sends' = Append(sends, [id |-> nrpc + 1, to |-> to,
                                            content |-> content,
                                            outcome |-> [kind |-> "pending"]])
                 /\ replies' = replies
  /\ UNCHANGED <<now, proc, pollerVars, providerVars, whInbox, webVars, dbVars,
                 sseVars, ghostVars>>

\* sendblue.sendMessage, spec.md section 6: it resolves with the provider's
\* identifier of the message, or rejects
SendblueRespond ==
  /\ \E i \in 1..Len(sends) :
       /\ sends[i].outcome.kind = "pending"
       /\ \E outcome \in {[kind |-> "ok", messageId |-> sends[i].id],
                          [kind |-> "error"]} :
            sends' = [sends EXCEPT ![i].outcome = outcome]
  /\ UNCHANGED <<now, proc, pollerVars, providerVars, whInbox, webVars, replies,
                 nrpc, request, dbVars, sseVars, ghostVars>>

\* the record written whatever the collaborator answered
sendMessageHistoryEager(e) ==
  addConversationMessage(history, e.to, OurNumber, e.content, TRUE)

\* Poller.sendMessage after its await: a rejection skips the append
sendMessageHistory(e) ==
  IF e.outcome.kind = "ok"
    THEN addConversationMessage(history, e.to, OurNumber, e.content, TRUE)
    ELSE history

\* the await of poller.sendMessage settles: success(result), or the catch
\* of handleRpc
SendMessageResume ==
  /\ \E i \in 1..Len(sends) :
       /\ sends[i].outcome.kind # "pending"
       /\ sends' = RemoveAt(sends, i)
       /\ history' = sendMessageHistory(sends[i])
       /\ replies' = Append(replies,
            IF sends[i].outcome.kind = "ok"
              THEN success(sends[i].id,
                           [messageId |-> sends[i].outcome.messageId])
              ELSE error(sends[i].id, InternalError))
  /\ UNCHANGED <<now, proc, pollerVars, providerVars, whInbox, webVars, nrpc,
                 request, processed, sseVars, ghostVars>>

----------------------------------------------------------------------------
(* rpc.ts: handleRpc for the other methods *)

WatchMethods == {"watch.subscribe", "watch.unsubscribe"}
LedgerMethods == {"chats.list", "chats.history", "chats.clear"}
ChatMethods == {"chats.history", "chats.clear"}
Methods == WatchMethods \cup LedgerMethods \cup {"status", "nope"}

\* the requests that can arrive as call number n: a body that parsed to
\* null, or an object with a method, with or without an id, and with the
\* parameters its method reads
RpcRequests(n) ==
  { [NoRequest EXCEPT !.body = "null"] }
  \cup
  { [NoRequest EXCEPT !.body = "object", !.method = method, !.id = id,
                      !.chat_id = chat_id, !.fault = fault] :
      method \in Methods, id \in {NoRequestId, n},
      chat_id \in {Undefined, <<>>, SenderA}, fault \in BOOLEAN }

\* the parameters and the fault that the method of a request never reads
\* are left at their defaults
WellFormed(rq) ==
  /\ rq.body = "object"
       => /\ (rq.method \notin ChatMethods => rq.chat_id = Undefined)
          /\ (rq.method \notin LedgerMethods => ~rq.fault)
          /\ (rq.method \in ChatMethods /\ Falsy(rq.chat_id) => ~rq.fault)

\* const rpcId = id ?? null
rpcIdOf(id) == IF id = NoRequestId THEN NullId ELSE id

\* db.getAllChats, db.getConversationHistory and db.clearConversationHistory,
\* from spec.md 4.1
getAllChats == {history[i].chat_id : i \in 1..Len(history)}
getConversationHistory(chatId) ==
  SelectSeq(history, LAMBDA r : r.chat_id = chatId)
\* a clear that deletes the records of every chat
clearConversationHistoryAll(chatId) == <<>>
clearConversationHistory(chatId) ==
  SelectSeq(history, LAMBDA r : r.chat_id # chatId)

\* the fields start() and stop() assign
startStopVars == <<isRunning, pollInterval, cleanupInterval, timers,
                   isPolling, pollPc, pollStart, fetchSince, response>>

\* the response to a request whose method is not 'send', when no call it
\* makes throws
Answer(rq) ==
  LET id == rpcIdOf(rq.id) IN
  CASE rq.method = "watch.subscribe" -> success(id, [subscribed |-> TRUE])
    [] rq.method = "watch.unsubscribe" -> success(id, [unsubscribed |-> TRUE])
    [] rq.method = "chats.list" -> success(id, [chats |-> getAllChats])
    [] rq.method = "chats.history" ->
         IF Falsy(rq.chat_id) THEN error(id, InvalidParams)
         ELSE success(id, [messages |-> getConversationHistory(rq.chat_id)])
    [] rq.method = "chats.clear" ->
         IF Falsy(rq.chat_id) THEN error(id, InvalidParams)
         ELSE success(id, [cleared |-> TRUE])
    [] rq.method = "status" -> success(id, [running |-> isRunning])
    [] OTHER -> error(id, MethodNotFound)

\* handleRpc for every request but a 'send': the destructuring of line 35
\* throws on a body that is null, before the try; inside the try a throwing
\* ledger call is answered by the catch
handleRpc(rq) ==
  IF rq.body = "null"
    THEN /\ request' = [rq EXCEPT !.threw = TRUE]
         /\ UNCHANGED <<replies, history, startStopVars>>
    ELSE /\ request' = rq
         /\ replies' = Append(replies,
              IF rq.fault THEN error(rpcIdOf(rq.id), InternalError)
              ELSE Answer(rq))
         /\ history' = IF rq.method = "chats.clear" /\ ~Falsy(rq.chat_id)
                          /\ ~rq.fault
                         THEN clearConversationHistory(rq.chat_id)
                         ELSE history
         /\ IF rq.method = "watch.subscribe" THEN start
            ELSE IF rq.method = "watch.unsubscribe" THEN stop
            ELSE UNCHANGED startStopVars

RpcCall ==
  /\ nrpc < MaxRpc
  /\ nrpc' = nrpc + 1
  /\ \E rq \in RpcRequests(nrpc + 1) : WellFormed(rq) /\ handleRpc(rq)
  /\ UNCHANGED <<now, proc, allowlist, lastPollTime, pending, providerVars, whInbox,
                 webVars, sends, processed, sseVars, ghostVars>>

----------------------------------------------------------------------------
(* The webhook callback of the inbound pipeline *)

\* webhook.ts:228-237: a push of a stored message has passed every check of
\* the webhook server, which answers 200 and hands the payload to onMessage.
WebhookOnMessage ==
  /\ \E i \in 1..Len(provider) :
       /\ provider[i].message_handle \notin pushed
       /\ pushed' = pushed \cup {provider[i].message_handle}
       /\ whInbox' = Append(whInbox, [msg |-> Payload(provider[i]),
                                     status |-> 200])
  /\ UNCHANGED <<now, proc, pollerVars, provider, webVars, rpcVars, dbVars, sseVars,
                 fetched, cycle>>
  /\ raced' = raced \cup RacingNext

\* channel.ts, from spec.md 4.4 step 7: first-seen wins, then the message
\* is normalized, appended and forwarded exactly as the Poller does; the
\* await of the 'end' listener then resolves.
OnMessage ==
  /\ \E i \in 1..Len(whInbox) :
       /\ whInbox' = RemoveAt(whInbox, i)
       /\ processMessage(whInbox[i].msg)
       /\ last' = [NoLast EXCEPT !.run = "settled",
                                 !.payload = whInbox[i].msg,
                                 !.before = whInbox[i].status,
                                 !.status = whInbox[i].status]
  /\ UNCHANGED <<now, proc, pollerVars, providerVars, servers, rateLimiters, reqs,
                 nreq, calls, rpcVars, ghostVars>>

----------------------------------------------------------------------------
(* index.ts: the process and its shutdown *)

NoExit == 0 - 1

\* index.ts:153-199 main(): the process after initDb(), poller.init() and
\* server.listen()
ProcUp == [event |-> "none", events |-> 0, log |-> <<>>, listening |-> TRUE,
           dbOpen |-> TRUE, exitTimers |-> 0, exitCode |-> NoExit]

\* index.ts:186-198: the process-level events main() listens to
ProcessEvents == {"SIGINT", "SIGTERM", "uncaughtException", "unhandledRejection"}

\* the events whose listener calls shutdown(): all but 'unhandledRejection',
\* whose listener (index.ts:196-198) only logs the reason
ShuttingEvents == {"SIGINT", "SIGTERM", "uncaughtException"}

\* sse.ts:149-165 shutdown(): the heartbeat interval is cleared, the response
\* of every registered client is ended and the map is cleared. Nothing marks
\* the manager as shut down.
SseShutdown ==
  /\ heartbeatInterval' = FALSE
  /\ streams' = [k \in DOMAIN streams |->
                   IF k \in DOMAIN clients
                     THEN [streams[k] EXCEPT !.ended = TRUE]
                     ELSE streams[k]]
  /\ clients' = <<>>
  /\ UNCHANGED broadcasts

\* index.ts:133-150 shutdown(server, signal): the calls in their order
ShutdownCalls ==
  <<"poller.stop", "sseManager.shutdown", "closeDb", "server.close", "setTimeout">>

shutdown(signal) ==
  /\ stop
  /\ SseShutdown
  /\ proc' = [proc EXCEPT !.event = signal,
                          !.log = @ \o ShutdownCalls,
                          !.dbOpen = FALSE,
                          !.listening = FALSE,
                          !.exitTimers = @ + 1,
                          !.events = @ + 1]

\* index.ts:186-198: a signal arrives, an exception escapes every handler,
\* or a rejected promise has no handler
ProcessEvent ==
  /\ proc.exitCode = NoExit
  /\ proc.events < MaxEvents
  /\ \E ev \in ProcessEvents :
       IF ev \in ShuttingEvents
         THEN /\ shutdown(ev)
              /\ UNCHANGED <<allowlist, lastPollTime, pending>>
         ELSE /\ proc' = [proc EXCEPT !.event = ev, !.events = @ + 1]
              /\ UNCHANGED <<pollerVars, sseVars>>
  /\ UNCHANGED <<now, providerVars, whInbox, webVars, rpcVars, dbVars, ghostVars>>

\* index.ts:140-143: the callback of server.close() runs once the server
\* has stopped listening and its connections have ended
HttpServerClosed ==
  /\ proc.exitCode = NoExit
  /\ ~proc.listening
  /\ DOMAIN clients = {}
  /\ proc' = [proc EXCEPT !.exitCode = 0]
  /\ UNCHANGED <<now, pollerVars, providerVars, whInbox, webVars, rpcVars, dbVars,
                 sseVars, ghostVars>>

\* index.ts:146-149: the 5000 ms timer of shutdown() fires
ForceExit ==
  /\ proc.exitCode = NoExit
  /\ proc.exitTimers > 0
  /\ proc' = [proc EXCEPT !.exitCode = 1]
  /\ UNCHANGED <<now, pollerVars, providerVars, whInbox, webVars, rpcVars, dbVars,
                 sseVars, ghostVars>>

----------------------------------------------------------------------------
(* Specification of the inbound pipeline *)

Init ==
  /\ now = 0
  /\ proc = ProcUp
  /\ allowlist \in AllowlistChoices
  /\ isRunning = FALSE /\ pollInterval = FALSE /\ cleanupInterval = FALSE
  /\ timers = 0
  /\ isPolling = FALSE
  /\ lastPollTime = 0 - 60 * 1000
  /\ pollPc = "idle" /\ pollStart = NoTime /\ fetchSince = NoTime
  /\ response = NoResponse /\ pending = <<>>
  /\ provider = <<>> /\ pushed = {}
  /\ whInbox = <<>>
  /\ servers = EmptyMap /\ rateLimiters = EmptyMap
  /\ reqs = <<>> /\ nreq = 0 /\ last = NoLast /\ calls = <<>>
  /\ sends = <<>> /\ replies = <<>> /\ nrpc = 0 /\ request = NoRequest
  /\ processed = {} /\ history = <<>>
  /\ clients = <<>> /\ heartbeatInterval = TRUE /\ streams = <<>>
  /\ broadcasts = <<>>
  /\ fetched = {} /\ raced = {} /\ cycle = NoCycle

Next ==
  \/ Start
  \/ Stop
  \/ PollTimer
  \/ ProviderRespond
  \/ PollResume
  \/ PollStep
  \/ Tick
  \/ ProviderReceive
  \/ WebhookOnMessage
  \/ OnMessage
  \/ OnMessageFails
  \/ \E sid \in ServerIds : StartWebhookServer(sid)
  \/ \E sid \in ServerIds : StopWebhookServer(sid)
  \/ \E sid \in ServerIds : ServerClosed(sid)
  \/ \E sid \in ServerIds : HandleRequest(sid)
  \/ \E i \in 1..Len(reqs) : OnData(i)
  \/ \E i \in 1..Len(reqs) : OnError(i)
  \/ \E i \in 1..Len(reqs) : OnEnd(i)
  \/ \E sid \in ServerIds : RateIsAllowed(sid)
  \/ \E sid \in ServerIds : RateCleanup(sid)
  \/ RpcCall
  \/ RpcSend
  \/ SendblueRespond
  \/ SendMessageResume
  \/ AddClient
  \/ \E k \in 1..Len(streams) : ClientClose(k)
  \/ SendHeartbeat
  \/ ProviderReceiveMalformed
  \/ ProcessEvent
  \/ HttpServerClosed
  \/ ForceExit

Spec == Init /\ [][Next]_vars

\* The poll path alone: no webhook is configured.
NextPoll ==
  \/ Start
  \/ Stop
  \/ PollTimer
  \/ ProviderRespond
  \/ PollResume
  \/ PollStep
  \/ Tick
  \/ ProviderReceive

SpecPoll == Init /\ [][NextPoll]_vars

\* Starting and stopping at one instant of the clock, where a fetch in
\* flight settles and a resumed poll() runs on: the promise of the fetch
\* resolves or rejects, and Node runs the continuation of a settled await.
NextStop ==
  \/ Start
  \/ Stop
  \/ PollTimer
  \/ ProviderRespond
  \/ PollResume
  \/ PollStep
  \/ ProviderReceive

SpecStop ==
  /\ Init /\ [][NextStop]_vars
  /\ WF_response(ProviderRespond)
  /\ WF_pollPc(PollResume)
  /\ WF_<<pending, pollPc>>(PollStep)

\* The poll path when the provider may return a message without sender.
NextFault ==
  \/ Start
  \/ Stop
  \/ PollTimer
  \/ ProviderRespond
  \/ PollResume
  \/ PollStep
  \/ ProviderReceive
  \/ ProviderReceiveMalformed

SpecFault == Init /\ [][NextFault]_vars

\* Both producers at one instant of the clock.
NextRace ==
  \/ Start
  \/ PollTimer
  \/ ProviderRespond
  \/ PollResume
  \/ PollStep
  \/ ProviderReceive
  \/ WebhookOnMessage
  \/ OnMessage

SpecRace == Init /\ [][NextRace]_vars

\* The plugin accepts every sender.
InitWeb == Init /\ allowlist = <<>>

\* The event stream: connections come and go while a poll cycle delivers
\* what the provider holds.
NextSse ==
  \/ AddClient
  \/ \E k \in 1..Len(streams) : ClientClose(k)
  \/ SendHeartbeat
  \/ Start
  \/ ProviderRespond
  \/ PollResume
  \/ PollStep
  \/ ProviderReceive

SpecSse == InitWeb /\ [][NextSse]_vars

\* The process from its start to its exit: subscribers connect, a poll
\* cycle delivers, and process-level events arrive. Nothing runs after exit.
Alive == proc.exitCode = NoExit

NextDown ==
  \/ ProcessEvent
  \/ HttpServerClosed
  \/ ForceExit
  \/ Alive /\ AddClient
  \/ Alive /\ \E k \in 1..Len(streams) : ClientClose(k)
  \/ Alive /\ Start
  \/ Alive /\ ProviderRespond
  \/ Alive /\ PollResume
  \/ Alive /\ PollStep
  \/ Alive /\ ProviderReceive

SpecDown == InitWeb /\ [][NextDown]_vars

\* A rate limiter and its callers, as the clock advances.
NextRate ==
  \/ \E sid \in ServerIds : StartWebhookServer(sid)
  \/ \E sid \in ServerIds : RateIsAllowed(sid)
  \/ \E sid \in ServerIds : RateCleanup(sid)
  \/ Tick

SpecRate == InitWeb /\ [][NextRate]_vars

\* A webhook server and its requests.
NextHttp ==
  \/ \E sid \in ServerIds : StartWebhookServer(sid)
  \/ \E sid \in ServerIds : HandleRequest(sid)
  \/ \E i \in 1..Len(reqs) : OnData(i)
  \/ \E i \in 1..Len(reqs) : OnError(i)
  \/ \E i \in 1..Len(reqs) : OnEnd(i)
  \/ OnMessage
  \/ OnMessageFails

SpecHttp == InitWeb /\ [][NextHttp]_vars

\* Two webhook servers, started, stopped and closed while requests arrive.
NextServers ==
  \/ \E sid \in TwoServerIds : StartWebhookServer(sid)
  \/ \E sid \in TwoServerIds : StopWebhookServer(sid)
  \/ \E sid \in TwoServerIds : ServerClosed(sid)
  \/ \E sid \in TwoServerIds : HandleRequestOf(sid, FewRequestChoices)
  \/ \E i \in 1..Len(reqs) : OnError(i)

SpecServers == InitWeb /\ [][NextServers]_vars

\* Clearing one chat while poll cycles deliver what the provider holds.
NextClear ==
  \/ /\ RpcCall
     /\ request'.method = "chats.clear" /\ request'.chat_id = SenderA
     /\ request'.id # NoRequestId /\ ~request'.fault
  \/ Start
  \/ PollTimer
  \/ ProviderRespond
  \/ PollResume
  \/ PollStep
  \/ ProviderReceive

SpecClear == InitWeb /\ [][NextClear]_vars

\* The 'send' command.
NextRpc ==
  \/ RpcSend
  \/ SendblueRespond
  \/ SendMessageResume

\* Every command.
NextCmd ==
  \/ RpcCall
  \/ RpcSend
  \/ SendblueRespond
  \/ SendMessageResume

SpecCmd == InitWeb /\ [][NextCmd]_vars

SpecRpc == InitWeb /\ [][NextRpc]_vars

----------------------------------------------------------------------------
(* Claims about the inbound pipeline *)

\* the number of 'message' events broadcast for an identifier
Count(id) ==
  Cardinality({i \in 1..Len(broadcasts) : broadcasts[i].message_id = id})

\* a producer still holds the message unprocessed
Held(id) ==
  id \in IdsOf(pending) \/ id \in InboxIds(whInbox)

ProviderMsgs == {provider[i] : i \in 1..Len(provider)}

\* C1: no identifier is ever broadcast twice, and a message that the poll
\* cycle and the webhook callback both held before either had processed it
\* has been broadcast exactly once when both are done with it (a message
\* the allowlist or the empty-content rule drops is broadcast by neither).
C1_ExactlyOneDelivery ==
  \A m \in ProviderMsgs :
    /\ Count(m.message_handle) <= 1
    /\ (m.message_handle \in raced /\ ~Held(m.message_handle) /\ ~Dropped(m))
         => Count(m.message_handle) = 1

C1_Witness ==
  \E m \in ProviderMsgs :
    /\ m.message_handle \in raced
    /\ ~Held(m.message_handle)
    /\ ~Dropped(m)
    /\ Count(m.message_handle) = 1

\* C2: a message whose send timestamp is below the PollCursor has been
\* returned by the fetch of some poll cycle.
C2_NoMessageLoss ==
  \A m \in ProviderMsgs :
    m.date_sent < lastPollTime => m.message_handle \in fetched

\* the messages of the cycle the for loop is done with
CycleDone == SubSeq(cycle.msgs, 1, Len(cycle.msgs) - Len(pending))

\* of those, the ones first seen by this cycle that pass the filters
CycleNew ==
  SelectSeq(CycleDone,
            LAMBDA m : m.message_handle \notin cycle.marked /\ ~Dropped(m))

SeqMap(f(_), seq) == [i \in 1..Len(seq) |-> f(seq[i])]
HandleOf(m) == m.message_handle
EventId(e) == e.message_id
RecordOfMsg(m) ==
  [chat_id |-> m.from_number, from_number |-> m.from_number,
   content |-> MessageContent(m), is_outbound |-> FALSE]

\* C3: on the poll path, while a cycle processes its response, the events
\* broadcast and the records appended since its fetch returned are those of
\* the processed messages that had no marker at that time and pass the
\* filters, one each and in order; a message whose marker existed adds
\* nothing, and its marker stays.
C3_FirstSeenWins ==
  pollPc = "processing" =>
    /\ cycle.marked \subseteq processed
    /\ SeqMap(EventId, SubSeq(broadcasts, cycle.bfrom + 1, Len(broadcasts)))
         = SeqMap(HandleOf, CycleNew)
    /\ SubSeq(history, cycle.hfrom + 1, Len(history))
         = SeqMap(RecordOfMsg, CycleNew)

\* the for loop is through a response of two messages, the first already
\* marked and the second new: only the second was delivered
C3_Witness ==
  /\ pollPc = "processing" /\ pending = <<>>
  /\ Len(cycle.msgs) = 2
  /\ cycle.msgs[1].message_handle \in cycle.marked
  /\ cycle.msgs[2].message_handle \notin cycle.marked
  /\ ~Dropped(cycle.msgs[2])
  /\ Len(broadcasts) = cycle.bfrom + 1
  /\ broadcasts[Len(broadcasts)].message_id = cycle.msgs[2].message_handle

\* C4: no step of the Poller (a cycle that succeeds, a cycle whose fetch
\* fails, start, stop) decreases lastPollTime.
C4_CursorNeverDecreases == [][lastPollTime' >= lastPollTime]_vars

\* the cursor has advanced past the construction time and the Poller was
\* stopped afterwards
C4_Witness == lastPollTime > 0 /\ ~isRunning /\ pollPc = "idle"

----------------------------------------------------------------------------
(* Claims about the rate limiter *)

Min(a, b) == IF a <= b THEN a ELSE b

\* the window an identity is in after the first k logged calls, counted
\* from the log alone: where it started and the calls made in it so far
RECURSIVE WindowAfter(_, _, _)
WindowAfter(identifier, k, windowMs) ==
  IF k = 0 THEN [start |-> 0, n |-> 0]
  ELSE LET prev == WindowAfter(identifier, k - 1, windowMs) IN
       IF calls[k].identifier # identifier THEN prev
       ELSE IF prev.n = 0 \/ calls[k].at - prev.start > windowMs
         THEN [start |-> calls[k].at, n |-> 1]
         ELSE [start |-> prev.start, n |-> prev.n + 1]

\* C5: for every identity, the calls of isAllowed in one window that return
\* true are exactly its first maxRequests calls in that window; every later
\* call in the window returns false; the first call after the window has
\* reset returns true and restarts the count at 1; and the stored count of
\* an identity never exceeds maxRequests.
C5_ExactlyCeilingPerWindow ==
  \A sid \in ServerIds :
    sid \in DOMAIN rateLimiters =>
      LET lim == rateLimiters[sid] IN
        /\ \A k \in 1..Len(calls) :
             calls[k].allowed <=>
               WindowAfter(calls[k].identifier, k, lim.windowMs).n
                 <= lim.maxRequests
        /\ \A identifier \in DOMAIN lim.requests :
             LET w == WindowAfter(identifier, Len(calls), lim.windowMs) IN
               /\ lim.requests[identifier].count <= lim.maxRequests
               /\ lim.requests[identifier].count = Min(w.n, lim.maxRequests)
               /\ lim.requests[identifier].windowStart = w.start

\* a call was denied at the ceiling, and after the window had reset the
\* same identity was allowed again with its count back at 1
C5_Witness ==
  \E sid \in DOMAIN rateLimiters :
    \E j \in 1..Len(calls), k \in 1..Len(calls) :
      /\ j < k /\ k = Len(calls)
      /\ calls[j].identifier = calls[k].identifier
      /\ ~calls[j].allowed /\ calls[k].allowed
      /\ calls[k].at > calls[j].at
      /\ rateLimiters[sid].requests[calls[k].identifier].count = 1

----------------------------------------------------------------------------
(* Claims about the webhook server *)

\* C6: a request denied by the rate limiter is answered 429 with a
\* Retry-After (in seconds) equal to the window of that server's limiter.
C6_RetryAfterIsWindow ==
  (last.run = "request" /\ last.status = 429
     /\ last.sid \in DOMAIN rateLimiters)
    => last.retryAfter * 1000 = rateLimiters[last.sid].windowMs

\* the 'end' listener ran on a request that nothing had answered yet
EndActed == last.run = "end" /\ last.before = 0

Occurrences(x, seq) == Cardinality({i \in 1..Len(seq) : seq[i] = x})

\* C7: when the 'end' listener runs on a request that passed the checks and
\* carries a valid payload, it answers 200 first, then calls onMessage once
\* if the payload is not outbound and not at all if it is; and when that
\* onMessage fails, the response it followed is still the 200 and the
\* servers, their limiters and their open requests are as they were.
C7_AckThenDispatchOnce ==
  [][ /\ (EndActed' /\ reqs' # reqs /\ isValidSendbluePayload(last'.payload))
           => /\ last'.status = 200
              /\ Head(last'.trace) = "200"
              /\ Occurrences("200", last'.trace) = 1
              /\ IF last'.payload.is_outbound
                   THEN /\ Occurrences("onMessage", last'.trace) = 0
                        /\ whInbox' = whInbox
                   ELSE /\ Occurrences("onMessage", last'.trace) = 1
                        /\ whInbox' = Append(whInbox,
                                             [msg |-> last'.payload,
                                              status |-> 200])
      /\ (last'.run = "failed" /\ Len(whInbox') < Len(whInbox))
           => /\ last'.status = 200
              /\ servers' = servers /\ rateLimiters' = rateLimiters
              /\ reqs' = reqs
    ]_vars

\* an onMessage failed after a valid inbound payload had been answered, and
\* the server is still registered with its limiter
C7_Witness ==
  /\ last.run = "failed" /\ last.status = 200
  /\ ~last.payload.is_outbound
  /\ \E sid \in DOMAIN servers : sid \in DOMAIN rateLimiters

RejectionStatuses == {400, 401, 404, 413, 429}

\* the payload of an 'end' run lacks message_handle or from_number, or
\* holds it empty
MissingFields ==
  /\ last.run = "end"
  /\ last.payload.json = "object"
  /\ \/ last.payload.message_handle \in {Null, ""}
     \/ last.payload.from_number \in {Undefined, <<>>}

\* C8: a run of the request handler that leaves its request rejected (404,
\* 413, 429, 401 or 400), or whose payload lacks message_handle or
\* from_number, calls no onMessage and changes neither the markers, nor
\* the history, nor what has been broadcast.
C8_RejectedNeverDispatched ==
  [][ ((nreq' # nreq \/ reqs' # reqs)
         /\ (last'.status \in RejectionStatuses \/ MissingFields'))
        => /\ whInbox' = whInbox
           /\ processed' = processed
           /\ history' = history
           /\ broadcasts' = broadcasts
    ]_vars

\* a well-formed object without a usable message_handle or from_number
\* was answered 400
C8_Witness == MissingFields /\ last.before = 0 /\ last.status = 400

\* the correct secret is the value of one of the four headers, with or
\* without 'Bearer ' before it
SuppliesSecret(headers, secret) ==
  \E value \in {headers.xSendblueSecret, headers.xWebhookSecret,
                 headers.xApiKey, headers.authorization} :
    value = secret \/ value = BearerPrefix \o secret

\* C9: with a secret configured, a request that reaches the secret check
\* passes it if and only if one of the four headers supplies the correct
\* secret, whatever the other headers hold; otherwise it is answered 401.
C9_SecretUnderAnyHeader ==
  (/\ last.run = "request" /\ last.status \in {0, 401}
   /\ last.sid \in DOMAIN servers
   /\ ~Falsy(servers[last.sid].secret))
    => (last.status = 0
          <=> SuppliesSecret(last.req.headers, servers[last.sid].secret))

----------------------------------------------------------------------------
(* Claims about the 'send' command *)

\* C10: when the await of sendMessage settles, a resolved collaborator
\* gives the caller a result with the collaborator's messageId and exactly
\* one outbound record appended for chat `to`; a rejected collaborator
\* gives the caller error -32603 and leaves the history as it was.
C10_SendRecordsOnSuccessOnly ==
  [][ \A i \in 1..Len(sends) :
        (/\ Len(replies') = Len(replies) + 1
         /\ replies'[Len(replies')].id = sends[i].id)
          => LET reply == replies'[Len(replies')] IN
             IF sends[i].outcome.kind = "ok"
               THEN /\ reply.kind = "result"
                    /\ reply.result.messageId = sends[i].outcome.messageId
                    /\ history' = Append(history,
                         [chat_id |-> sends[i].to, from_number |-> OurNumber,
                          content |-> sends[i].content, is_outbound |-> TRUE])
               ELSE /\ reply.kind = "error"
                    /\ reply.code = InternalError
                    /\ history' = history
    ]_vars

\* one send has succeeded and been recorded, another has failed
C10_Witness ==
  /\ \E i \in 1..Len(replies) : replies[i].kind = "result"
  /\ \E i \in 1..Len(replies) :
       replies[i].kind = "error" /\ replies[i].code = InternalError
  /\ Len(history) = 1 /\ history[1].is_outbound

----------------------------------------------------------------------------
(* Claims C11 to C20 *)

\* a 'send' whose parameters pass the check of rpc.ts:58: its response
\* comes when the await of sendMessage settles
SendAccepted(rq) ==
  rq.method = "send" /\ ~(Falsy(rq.to) \/ rq.content = Undefined)

\* the code and the effect the dispatch of handleRpc owes to a request
Owed(rq, reply) ==
  CASE rq.method = "send" -> reply.kind = "error" /\ reply.code = InvalidParams
                             /\ sends' = sends /\ history' = history
    [] rq.method \in ChatMethods /\ Falsy(rq.chat_id) ->
         /\ reply.kind = "error" /\ reply.code = InvalidParams
         /\ sends' = sends /\ history' = history
    [] rq.method \notin WatchMethods \cup LedgerMethods \cup {"status", "send"} ->
         reply.kind = "error" /\ reply.code = MethodNotFound
    [] rq.fault -> reply.kind = "error" /\ reply.code = InternalError
    [] OTHER -> reply.kind = "result"

\* C11: every call of handleRpc returns, never throws: an unknown method is
\* answered -32601; a send without to or content and a chats.history or
\* chats.clear without chat id are answered -32602 with no collaborator
\* called and the history unchanged; a throwing collaborator is answered
\* -32603; the response carries the id of the request, or null when the
\* request had none. (A send that passed its check is answered when its
\* await settles.)
C11_AlwaysOneStructuredResponse ==
  [][ nrpc' = nrpc + 1 =>
        /\ ~request'.threw
        /\ \/ SendAccepted(request') /\ replies' = replies
           \/ /\ ~SendAccepted(request')
              /\ Len(replies') = Len(replies) + 1
              /\ SubSeq(replies', 1, Len(replies)) = replies
              /\ replies'[Len(replies')].id = rpcIdOf(request'.id)
              /\ Owed(request', replies'[Len(replies')])
    ]_vars

\* the same for the requests whose body is an object
C11_ObjectRequestsAnswered ==
  [][ nrpc' = nrpc + 1 /\ request'.body = "object" =>
        /\ ~request'.threw
        /\ \/ SendAccepted(request') /\ replies' = replies
           \/ /\ ~SendAccepted(request')
              /\ Len(replies') = Len(replies) + 1
              /\ SubSeq(replies', 1, Len(replies)) = replies
              /\ replies'[Len(replies')].id = rpcIdOf(request'.id)
              /\ Owed(request', replies'[Len(replies')])
    ]_vars

\* the responses to watch.subscribe and watch.unsubscribe, in call order
IsWatchReply(r) ==
  /\ r.kind = "result"
  /\ DOMAIN r.result \in {{"subscribed"}, {"unsubscribed"}}
WatchReplies == SelectSeq(replies, IsWatchReply)
LastWasSubscribe ==
  /\ WatchReplies # <<>>
  /\ DOMAIN WatchReplies[Len(WatchReplies)].result = {"subscribed"}

\* C12: after any sequence of watch.subscribe and watch.unsubscribe there
\* is at most one poll timer, a timer exists exactly when the poller is
\* running, the poller is running exactly when the most recent of those
\* commands was watch.subscribe and every status response reports that, and
\* a watch.subscribe that finds the poller running changes nothing of it.
C12_OneTimerIffRunning ==
  /\ [](/\ timers <= 1
        /\ (timers = 1) = isRunning
        /\ pollInterval = isRunning
        /\ isRunning = LastWasSubscribe)
  /\ [][ nrpc' = nrpc + 1 =>
           /\ (request'.method = "status"
                 => replies'[Len(replies')].result.running = LastWasSubscribe)
           /\ (request'.method = "watch.subscribe" /\ isRunning
                 => UNCHANGED pollerVars)
       ]_vars

\* subscribe, subscribe again, then status: one timer, running reported
C12_Witness ==
  /\ Len(replies) = 3
  /\ \A i \in 1..3 : replies[i].kind = "result"
  /\ DOMAIN replies[1].result = {"subscribed"}
  /\ DOMAIN replies[2].result = {"subscribed"}
  /\ DOMAIN replies[3].result = {"running"}
  /\ replies[3].result.running
  /\ timers = 1

IsAck(frame) == "connected" \in DOMAIN frame

\* C13: on the response of every connection, the first frame written is the
\* acknowledgement {connected: true, id} carrying the identifier the
\* connection was registered under, and no later frame is an
\* acknowledgement: no message event and no heartbeat precedes it.
C13_AckFirstAndOnce ==
  \A k \in 1..Len(streams) :
    LET frames == streams[k].frames IN
    /\ frames # <<>>
    /\ frames[1] = Ack(streams[k].id)
    /\ \A j \in 2..Len(frames) : ~IsAck(frames[j])

\* a connection has received its acknowledgement, then a message event and
\* a heartbeat, while another was opened after the event was broadcast
C13_Witness ==
  /\ Len(streams) = 2
  /\ \E k \in 1..2 :
       /\ Len(streams[k].frames) = 3
       /\ \E j \in 2..3 : "message_id" \in DOMAIN streams[k].frames[j]
       /\ \E j \in 2..3 : "heartbeat" \in DOMAIN streams[k].frames[j]
  /\ \E k \in 1..2 : Len(streams[k].frames) = 1
  /\ broadcasts # <<>>

\* the sender is on the allowlist, comparing digits only
OnAllowlist(number) ==
  \E i \in 1..Len(allowlist) :
    SelectSeq(allowlist[i], LAMBDA ch : ch \in Digits)
      = SelectSeq(number, LAMBDA ch : ch \in Digits)

NothingToDeliver(m) ==
  (m.content = Null \/ Trim(m.content) = <<>>)
    /\ (m.media_url = Null \/ m.media_url = <<>>)

\* C14: with a non-empty allowlist every inbound record of the history and
\* every broadcast event comes from a sender on it (digits compared); with
\* an empty allowlist every polled message that has text or media is
\* appended and broadcast once processed.
C14_AllowlistGatesDelivery ==
  IF allowlist # <<>>
    THEN /\ \A i \in 1..Len(history) :
              ~history[i].is_outbound => OnAllowlist(history[i].from_number)
         /\ \A i \in 1..Len(broadcasts) : OnAllowlist(broadcasts[i].from)
    ELSE \A m \in ProviderMsgs :
           m.message_handle \in processed /\ ~NothingToDeliver(m)
             => /\ Count(m.message_handle) = 1
                /\ \E i \in 1..Len(history) :
                     history[i].from_number = m.from_number

\* with an allowlist, a message of a listed sender has been delivered and
\* a message of an unlisted sender has been processed and dropped
C14_Witness ==
  /\ allowlist # <<>>
  /\ \E m \in ProviderMsgs :
       /\ OnAllowlist(m.from_number)
       /\ Count(m.message_handle) = 1
  /\ \E m \in ProviderMsgs :
       /\ ~OnAllowlist(m.from_number)
       /\ m.message_handle \in processed
       /\ Count(m.message_handle) = 0

\* C15: when the fetch of a poll cycle settles, whether it succeeded or
\* threw, the cursor is strictly later than it was when the cycle began
\* (for every cycle that began after the instant its cursor stood at).
C15_CursorAdvancesEveryCycle ==
  [][ pollPc = "fetching" /\ pollPc' # "fetching" /\ fetchSince < pollStart
        => lastPollTime' > fetchSince
    ]_vars

\* the same for the cycles whose fetch succeeded
C15_CursorAdvancesOnSuccess ==
  [][ pollPc = "fetching" /\ pollPc' = "processing" /\ fetchSince < pollStart
        => lastPollTime' > fetchSince
    ]_vars

\* C16: when a poll cycle whose fetch succeeded ends, the cursor is the
\* time the cycle began (the instant before the fetch was issued), not the
\* time the fetch returned.
C16_CursorIsCycleStart ==
  [][ pollPc = "processing" /\ pollPc' = "idle" => lastPollTime' = pollStart
    ]_vars

\* C17: when the for loop of a poll cycle is left, every message of the
\* cycle's response has been processed (it has its marker): a failure
\* while processing one message does not keep the later ones from being
\* processed.
C17_FailureDoesNotAbortCycle ==
  [][ pollPc = "processing" /\ pollPc' = "idle"
        => \A i \in 1..Len(cycle.msgs) :
             cycle.msgs[i].message_handle \in processed'
    ]_vars

\* the same for the cycles in which no message makes processMessage throw
C17_CycleWithoutFailureProcessesAll ==
  [][ (/\ pollPc = "processing" /\ pollPc' = "idle"
       /\ \A j \in 1..Len(cycle.msgs) : cycle.msgs[j].from_number # Undefined)
        => \A i \in 1..Len(cycle.msgs) :
             cycle.msgs[i].message_handle \in processed'
    ]_vars

\* C18: a step that appends an inbound history record or broadcasts an
\* event is the processing of the message at the head of the cycle, first
\* seen in that step, and leaves that message marked and the event
\* carrying its identifier; and the number of events broadcast for an
\* identifier that is marked never changes again, so a message that was
\* marked and dropped (by the allowlist, for being empty, or by a failure
\* after the marker) is delivered by no later cycle.
C18_MarkerBeforeSideEffects ==
  [][ /\ (history' # history \/ broadcasts' # broadcasts)
          => /\ pollPc = "processing" /\ pending # <<>>
             /\ Head(pending).message_handle \notin processed
             /\ Head(pending).message_handle \in processed'
             /\ broadcasts' = Append(broadcasts, EventOf(Head(pending)))
             /\ Len(history') = Len(history) + 1
      /\ \A id \in processed :
           Cardinality({i \in 1..Len(broadcasts') :
                          broadcasts'[i].message_id = id}) = Count(id)
    ]_vars

\* a later cycle has fetched again, and gone through, a response holding a
\* message that was marked and dropped, after another was delivered
C18_Witness ==
  /\ pollPc = "processing" /\ pending = <<>>
  /\ \E id \in cycle.marked : Count(id) = 0
  /\ \E id \in cycle.marked : Count(id) = 1

\* where the message of an event stands in the response of the cycle
PlaceInResponse(id) ==
  CHOOSE i \in 1..Len(cycle.msgs) : cycle.msgs[i].message_handle = id

ContentOfItem(x) == x.content
InboundOfChat(chat) ==
  SelectSeq(history, LAMBDA r : ~r.is_outbound /\ r.chat_id = chat)
EventsOfChat(chat) ==
  SelectSeq(broadcasts, LAMBDA e : e.chat_id = chat)

\* C19: the events a poll cycle has broadcast come from messages of its
\* response and follow the order of the response; and for each chat the
\* inbound records of the history, in append order, have the contents of
\* the events broadcast for that chat, in broadcast order.
C19_DeliveryInResponseOrder ==
  /\ pollPc = "processing" =>
       \A i, j \in (cycle.bfrom + 1)..Len(broadcasts) :
         /\ \E k \in 1..Len(cycle.msgs) :
              cycle.msgs[k].message_handle = broadcasts[i].message_id
         /\ i < j => PlaceInResponse(broadcasts[i].message_id)
                       < PlaceInResponse(broadcasts[j].message_id)
  /\ \A chat \in {SenderA, SenderB} :
       SeqMap(ContentOfItem, InboundOfChat(chat))
         = SeqMap(ContentOfItem, EventsOfChat(chat))

\* a cycle has delivered the two messages of its response, both of one chat
C19_Witness ==
  /\ pollPc = "processing" /\ pending = <<>>
  /\ Len(broadcasts) = cycle.bfrom + 2
  /\ broadcasts[cycle.bfrom + 1].chat_id = broadcasts[cycle.bfrom + 2].chat_id
  /\ broadcasts[cycle.bfrom + 1].content # broadcasts[cycle.bfrom + 2].content

----------------------------------------------------------------------------
(* Claims C21 to C30 *)

\* C21: every step that takes the Poller from not running to running
\* begins a poll cycle in that same step (the in-flight flag is raised and
\* a fetch is issued from the cursor), also when the Poller was stopped
\* while a cycle was in flight and that cycle has not ended yet.
C21_StartBeginsCycle ==
  [][ ~isRunning /\ isRunning'
        => /\ ~isPolling /\ isPolling'
           /\ pollPc' = "fetching" /\ response' = NoResponse
           /\ fetchSince' = lastPollTime /\ pollStart' = now
    ]_vars

\* the same for the starts that find no cycle in flight
C21_StartBeginsCycleWhenIdle ==
  [][ ~isRunning /\ isRunning' /\ ~isPolling
        => /\ isPolling'
           /\ pollPc' = "fetching" /\ response' = NoResponse
           /\ fetchSince' = lastPollTime /\ pollStart' = now
    ]_vars

\* what the checks of the claimed order, taken one after the other, owe to a
\* request that arrives at server sid: 404, then 413 (owed once the body is
\* read, so not yet answered, or answered 413), then 429, then 401
OwedInOrder(sid, rq, big, status) ==
  LET ip == IF rq.remoteAddress = Null THEN "unknown" ELSE rq.remoteAddress IN
  IF rq.method = "GET" /\ rq.url = HealthUrl THEN status = 200
  ELSE IF rq.method # "POST" \/ ~startsWith(rq.url, servers[sid].path)
    THEN status = 404
  ELSE IF big THEN status \in {0, 413}
  ELSE IF sid \in DOMAIN rateLimiters
          /\ ~isAllowedRun(rateLimiters[sid], ip).allowed
    THEN status = 429
  ELSE IF ~Falsy(servers[sid].secret)
          /\ ~verifySecret(rq.headers, servers[sid].secret)
    THEN status = 401
  ELSE status = 0

\* C22: the request listener answers a request with the status of the
\* earliest check it fails in the order 404, 413, 429, 401 (and leaves it
\* unanswered for the body checks when it fails none): a request whose
\* body is too large is not answered 429 or 401.
C22_ChecksInClaimedOrder ==
  [][ nreq' = nreq + 1
        => OwedInOrder(last'.sid, last'.req, last'.big, last'.status)
    ]_vars

\* the same for the requests whose body is not too large
C22_OrderForSmallBodies ==
  [][ nreq' = nreq + 1 /\ ~last'.big
        => OwedInOrder(last'.sid, last'.req, last'.big, last'.status)
    ]_vars

TextOf(m) == IF m.content = Null THEN <<>> ELSE Trim(m.content)
MediaOf(m) == IF m.media_url = Null THEN <<>> ELSE m.media_url
NoticeOf(m) == <<"[Media: ">> \o MediaOf(m) \o <<"]">>
EndsWith(seq, tail) ==
  /\ Len(seq) >= Len(tail)
  /\ SubSeq(seq, Len(seq) - Len(tail) + 1, Len(seq)) = tail

\* the content owed to a message with text or media
NormalizedAs(m, content) ==
  CASE TextOf(m) # <<>> /\ MediaOf(m) # <<>> ->
         /\ Len(content) > Len(TextOf(m)) + Len(NoticeOf(m))
         /\ SubSeq(content, 1, Len(TextOf(m))) = TextOf(m)
         /\ EndsWith(content, NoticeOf(m))
    [] TextOf(m) = <<>> /\ MediaOf(m) # <<>> -> content = NoticeOf(m)
    [] TextOf(m) # <<>> /\ MediaOf(m) = <<>> -> content = TextOf(m)
    [] OTHER -> FALSE

\* C23: every event broadcast for a polled message m carries the
\* normalized content of m (trimmed text, then the media notice, when both
\* are present; the notice alone; the text alone), media_url exactly when
\* m has one, and m's sender as chat_id and from and m's identifier; the
\* history record appended with it has the same content; and a message
\* with neither text nor media is never appended or broadcast.
C23_ContentNormalization ==
  /\ Len(history) = Len(broadcasts)
  /\ \A i \in 1..Len(broadcasts) :
       \E m \in ProviderMsgs :
         /\ broadcasts[i].message_id = m.message_handle
         /\ broadcasts[i].chat_id = m.from_number
         /\ broadcasts[i].from = m.from_number
         /\ NormalizedAs(m, broadcasts[i].content)
         /\ (broadcasts[i].media_url # Null) = (MediaOf(m) # <<>>)
         /\ broadcasts[i].media_url # Null => broadcasts[i].media_url = m.media_url
         /\ history[i].content = broadcasts[i].content
         /\ history[i].chat_id = m.from_number
         /\ ~history[i].is_outbound

\* a message with text and media has been delivered, and a message with
\* neither has been processed
C23_Witness ==
  /\ \E i \in 1..Len(broadcasts) :
       /\ broadcasts[i].media_url # Null
       /\ Len(broadcasts[i].content) > Len(broadcasts[i].media_url) + 2
  /\ \E m \in ProviderMsgs :
       /\ TextOf(m) = <<>> /\ MediaOf(m) = <<>>
       /\ m.message_handle \in processed

\* C24: a step that publishes an event (it always completes) does one of
\* two things to each registered connection whose response has not ended:
\* it writes the event and keeps the connection registered, or the write
\* threw, nothing was written and the connection is removed; a registered
\* connection whose response has ended is removed without a write, and a
\* connection that is not registered is left alone.
C24_PublishPrunesOnlyFailedWrites ==
  [][ Len(broadcasts') = Len(broadcasts) + 1 =>
        LET event == broadcasts'[Len(broadcasts')] IN
        \A k \in 1..Len(streams) :
          LET wrote == streams'[k].frames = Append(streams[k].frames, event)
              untouched == streams'[k].frames = streams[k].frames
          IN  IF k \notin DOMAIN clients
                THEN untouched /\ k \notin DOMAIN clients'
              ELSE IF clients[k].ended
                THEN untouched /\ k \notin DOMAIN clients'
              ELSE \/ wrote /\ k \in DOMAIN clients'
                   \/ untouched /\ k \notin DOMAIN clients'
    ]_vars

\* after a publish, one connection holds the event and is registered and
\* another, opened before it, holds only its acknowledgement and is gone
C24_Witness ==
  /\ Len(streams) = 2 /\ Len(broadcasts) = 1
  /\ 2 \in DOMAIN clients
  /\ streams[2].frames = <<Ack(2), broadcasts[1]>>
  /\ 1 \notin DOMAIN clients
  /\ streams[1].frames = <<Ack(1)>>

\* the step is a shutdown of the Broadcaster: it clears the heartbeat
\* interval, which only the constructor sets
IsSseShutdown == heartbeatInterval /\ ~heartbeatInterval'

\* what the shutdown itself does: the heartbeat is stopped, the response of
\* every registered connection is ended and no connection stays registered
C25_ShutdownClosesEveryConnection ==
  [][ IsSseShutdown =>
        /\ DOMAIN clients' = {}
        /\ \A k \in 1..Len(streams) :
             k \in DOMAIN clients => streams'[k].ended ]_vars

\* C25: after the shutdown of the Broadcaster the heartbeat is stopped,
\* every connection that was registered is closed and none is registered,
\* and every later publish writes to no connection, whatever was called
\* in between.
C25_PublishAfterShutdownWritesNothing ==
  /\ C25_ShutdownClosesEveryConnection
  /\ [][ ~heartbeatInterval /\ Len(broadcasts') = Len(broadcasts) + 1
           => \A k \in 1..Len(streams) :
                streams'[k].frames = streams[k].frames ]_vars

\* the step ran the shutdown path: the Poller was stopped, then the
\* subscriber connections were closed, then the persistence layer, and a
\* timer that forces the exit was armed
ShutdownPathRan ==
  /\ Len(proc'.log) >= Len(proc.log) + 3
  /\ SubSeq(proc'.log, Len(proc.log) + 1, Len(proc.log) + 3)
       = <<"poller.stop", "sseManager.shutdown", "closeDb">>
  /\ ~isRunning' /\ ~pollInterval'
  /\ DOMAIN clients' = {} /\ ~heartbeatInterval'
  /\ ~proc'.dbOpen
  /\ ~proc'.listening
  /\ proc'.exitTimers = proc.exitTimers + 1

IsProcessEvent(evs) == proc'.events = proc.events + 1 /\ proc'.event \in evs

\* a stop signal or an uncaught exception runs the shutdown path
C26_SignalsAndExceptionsShutDown ==
  [][ IsProcessEvent({"SIGINT", "SIGTERM", "uncaughtException"})
        => ShutdownPathRan ]_vars

\* C26: the shutdown stops the Poller, closes the subscriber connections,
\* closes the persistence layer and arms the forced exit, in that order,
\* and every uncaught process-level fault, an uncaught exception or an
\* unhandled promise rejection, runs this same path.
C26_EveryFaultShutsDown ==
  [][ IsProcessEvent({"SIGINT", "SIGTERM", "uncaughtException",
                      "unhandledRejection"})
        => ShutdownPathRan ]_vars

\* what the module keeps for a serverId: its server and its rate limiter
EntryOf(srv, lims, sid) ==
  <<IF sid \in DOMAIN srv THEN <<srv[sid]>> ELSE <<>>,
    IF sid \in DOMAIN lims THEN <<lims[sid]>> ELSE <<>> >>

EntryChanged(sid) ==
  EntryOf(servers', rateLimiters', sid) # EntryOf(servers, rateLimiters, sid)

\* C27: servers with different serverIds do not interfere: a step changes
\* the server or the limiter of at most one serverId, and a request changes
\* nothing of a serverId other than the one it was sent to. A start for a
\* serverId that is registered creates nothing: the server keeps its
\* configuration, no limiter is created for it, and its limiter keeps its
\* parameters and its counts.
C27_ServersDoNotInterfere ==
  [][ /\ \A a, b \in TwoServerIds :
           a # b => ~(EntryChanged(a) /\ EntryChanged(b))
      /\ \A sid \in TwoServerIds :
           /\ (nreq' = nreq + 1 /\ last'.sid # sid) => ~EntryChanged(sid)
           /\ (sid \in DOMAIN servers /\ sid \in DOMAIN servers')
                => /\ servers'[sid].secret = servers[sid].secret
                   /\ servers[sid].closing => servers'[sid].closing
                   /\ sid \in DOMAIN rateLimiters' => sid \in DOMAIN rateLimiters
                   /\ (sid \in DOMAIN rateLimiters' /\ nreq' = nreq)
                        => rateLimiters'[sid] = rateLimiters[sid]
    ]_vars

\* two servers run with different secrets and different limits; one of
\* them has counted a request and turned the next away, and the limiter of
\* the other has counted nothing
C27_Witness ==
  /\ DOMAIN servers = TwoServerIds /\ DOMAIN rateLimiters = TwoServerIds
  /\ servers["sendblue"].secret # servers["other"].secret
  /\ rateLimiters["sendblue"].maxRequests # rateLimiters["other"].maxRequests
  /\ rateLimiters["sendblue"].requests = EmptyMap
  /\ rateLimiters["other"].requests # EmptyMap
  /\ last.sid = "other" /\ last.status = 429

\* the step is a chats.clear that was carried out for chat `chatId`
IsChatsClear(chatId) ==
  /\ nrpc' = nrpc + 1
  /\ request'.body = "object" /\ request'.method = "chats.clear"
  /\ request'.chat_id = chatId /\ ~request'.fault

\* C28: chats.clear deletes the ConversationRecords of the given chat and
\* nothing else: the records of the other chats stay, in their order, and
\* every ProcessedMarker stays. So a message is delivered only when it has
\* no marker, also after its chat was cleared: a delivered message that is
\* fetched again is discarded, and no identifier is broadcast twice.
C28_ClearKeepsMarkers ==
  /\ [][ \A chatId \in {SenderA, SenderB} :
           IsChatsClear(chatId)
             => /\ history' = SelectSeq(history, LAMBDA r : r.chat_id # chatId)
                /\ processed' = processed ]_vars
  /\ [][ Len(broadcasts') > Len(broadcasts)
           => broadcasts'[Len(broadcasts')].message_id \notin processed ]_vars
  /\ [](\A id \in IdsOf(provider) : Count(id) <= 1)

\* message "A" was delivered and its chat was cleared while the record of
\* another chat stayed; a later cycle has fetched "A" again, found its
\* marker and discarded it
C28_Witness ==
  /\ pollPc = "processing"
  /\ "A" \in IdsOf(cycle.msgs) /\ "A" \in cycle.marked
  /\ "A" \notin IdsOf(pending)
  /\ "A" \in processed /\ Count("A") = 1
  /\ \A i \in 1..Len(history) : history[i].chat_id # SenderA
  /\ \E i \in 1..Len(history) : history[i].chat_id = SenderB

\* what a poll cycle in flight holds
CycleLocals == <<pollPc, pollStart, fetchSince, response, pending>>

\* C29: at most one poll cycle is in flight. The flag isPolling is set
\* exactly while a cycle is in flight; while it is set, a tick of the
\* interval and a start change nothing of the cycle and leave nothing
\* behind that would begin a cycle later (the cycle that ends leaves the
\* Poller idle); the flag is clear when the cycle has ended, by success or
\* by failure, so that whenever no cycle is in flight and the interval is
\* armed, a tick begins a cycle.
C29_OneCycleInFlight ==
  /\ [](isPolling <=> pollPc # "idle")
  /\ [](isPolling => ~ENABLED <<PollTimer>>_CycleLocals)
  /\ [](isPolling => ~ENABLED <<Start>>_CycleLocals)
  /\ [][ isPolling /\ pollPc' = "fetching"
           => /\ pollPc = "fetching"
              /\ pollStart' = pollStart /\ fetchSince' = fetchSince ]_vars
  /\ [](~isPolling /\ timers > 0 => ENABLED <<PollTimer>>_pollPc)

\* a cycle failed while it processed the message without sender, and a
\* later cycle is in flight
C29_Witness ==
  /\ Malformed.message_handle \in processed
  /\ isPolling /\ pollPc = "fetching"

\* the request handled in this step was a POST to the webhook path of `sid`
IsWebhookPost(sid) ==
  /\ nreq' = nreq + 1 /\ last'.sid = sid
  /\ last'.req.method = "POST" /\ startsWith(last'.req.url, servers[sid].path)

\* the same for the servers on which stopWebhookServer was not called
C30_LimiterWhileNotStopped ==
  /\ [](\A sid \in DOMAIN servers :
          ~servers[sid].closing => sid \in DOMAIN rateLimiters)
  /\ [][ \A sid \in DOMAIN servers :
           IsWebhookPost(sid) /\ ~servers[sid].closing
             => \/ last'.status = 429
                \/ /\ sid \in DOMAIN rateLimiters'
                   /\ "10.0.0.1" \in DOMAIN rateLimiters'[sid].requests ]_vars

\* C30: whenever a serverId is registered as running, a rate limiter
\* exists for it, and every POST its server handles is either turned away
\* by the limiter or counted by it, also after stopWebhookServer was called
\* and before the close has completed.
C30_RunningServerHasLimiter ==
  /\ [](\A sid \in DOMAIN servers : sid \in DOMAIN rateLimiters)
  /\ [][ \A sid \in DOMAIN servers :
           IsWebhookPost(sid)
             => \/ last'.status = 429
                \/ /\ sid \in DOMAIN rateLimiters'
                   /\ "10.0.0.1" \in DOMAIN rateLimiters'[sid].requests ]_vars

----------------------------------------------------------------------------
(* Claims C31 and C32 *)

\* the request handled in this step carries the secret of its server
CarriesSecret ==
  /\ nreq' = nreq + 1 /\ last'.sid \in DOMAIN servers
  /\ ~Falsy(servers[last'.sid].secret)
  /\ verifySecret(last'.req.headers, servers[last'.sid].secret)

\* the first request a server handles is never turned away by the limiter
C31_FirstRequestNotLimited ==
  [][ nreq = 0 /\ nreq' = 1 => last'.status # 429 ]_vars

\* C31: requests rejected with 401 do not count against their sender: a
\* request that carries the correct secret and follows nothing but one
\* rejected request from the same address is rate-limited no more than it
\* would be as the first request, that is, it is not answered 429.
C31_RejectedDoNotLimitAuthenticated ==
  [][ ( /\ nreq = 1 /\ last.run = "request" /\ last.status = 401
        /\ CarriesSecret
        /\ last'.sid = last.sid
        /\ last'.req.remoteAddress = last.req.remoteAddress )
        => last'.status # 429 ]_vars

\* the step is one turn of the for loop of a poll cycle: processMessage is
\* called for the next fetched message and begins with the marker check
IsProcessingStep == pollPc = "processing" /\ Len(pending') < Len(pending)

\* C32: once the shutdown has closed the persistence layer and the
\* subscriber connections, and while the Poller it stopped stays stopped,
\* no poll cycle processes a message: no marker is checked or written, no
\* record is appended to the history and no event is broadcast. The only
\* cycle that can run then is one that was in flight at the shutdown.
C32_NoLedgerUseAfterShutdown ==
  [][ ~proc.dbOpen /\ ~isRunning
        => /\ ~IsProcessingStep
           /\ processed' = processed
           /\ history' = history
           /\ broadcasts' = broadcasts ]_vars

====
